---- MODULE Spec2Model ----
(***************************************************************************)
(* Bibliography-span detection and reference parsing of Find_Bibliography. *)
(*                                                                         *)
(* Spec      the detector cascade detect_bibliography, in both             *)
(*           implementations (services/delb/find_bibliography.py and       *)
(*           services/bib_orchestrator.py), called with the default        *)
(*           options head=0.05, tail=0.25, boost=1.0, use_gpt=False.       *)
(*                                                                         *)
(* A document is revealed stage by stage: every stage action draws the     *)
(* part of the document that the stage reads (outline and first pages for  *)
(* the table-of-contents scan, the per-page keyword hits, the font scan,   *)
(* the page texts of the interval scorer).  The variable obs holds the     *)
(* input and the output of the stage that ran last.                        *)
(***************************************************************************)
EXTENDS Integers, Sequences, FiniteSets, TLC

\* ------------------------------------------------------------- bounds
MaxPages      == 4      \* pages of a document
MaxTocLines   == 2      \* lines of a table-of-contents page / outline entries
MaxKwMinBlock == 3      \* largest kw_min_block option tried

\* ------------------------------------------------------------- values
None  == <<>>           \* Python None where a tuple or a list is expected
NoNum == -1             \* Python None where an int is expected

Impls == {"find_bibliography", "bib_orchestrator"}

VARIABLES
    pc,            \* position of the running call
    impl,          \* which detect_bibliography is running
    pageCount,     \* doc.page_count
    kw_min_block,  \* option kw_min_block
    toc_pg,        \* toc_pg / toc_page of stage 0 (NoNum = None)
    fontCache,     \* meta/<stem>/font_cluster.json has been written
    result,        \* value returned (None = absent)
    raised,        \* exception that left detect_bibliography ("" = none)
    trace,         \* stages started so far, in order
    hitStage,      \* stage whose result was returned ("" = none)
    obs            \* input and output of the stage that ran last

\* one call of _detect_block._evaluate (SpecEval)
VARIABLES
    ev_pc,         \* position of the call
    ev_opt,        \* the options boost, use_gpt, gpt_only
    ev_scores,     \* the scores of _score_page
    ev_med,        \* twice statistics.median(scores), taken before refinement
    ev_answers,    \* outcome of the oracle request of each page
    ev_refined,    \* scores after refine()
    ev_out         \* what _evaluate returns

\* dedupe_records applied once and then to its own output (SpecDedupe)
VARIABLES
    dd_pc,         \* position: "in", "once", "twice"
    dd_mode,       \* "fuzzy": rapidfuzz can be imported, "exact": it cannot
    dd_thr,        \* threshold
    dd_in,         \* the records passed in
    dd_out,        \* dedupe_records(dd_in)
    dd_out2        \* dedupe_records(dd_out)

\* one call of extract_references on one page, or one direct call of
\* parse_reference (SpecParse)
VARIABLES
    px_pc,         \* position: "start", "lines", "done"; "call", "returned"
    px_txt,        \* the text of the page, as its physical lines
    px_use_gpt,    \* option use_gpt
    px_line_parser,\* the caller passed a line_parser
    px_style,      \* style
    px_todo,       \* merged lines _parse_page has not reached yet
    px_out,        \* refs
    px_log,        \* per merged line parsed: raw line, tier, record, kept
    px_line,       \* the line passed to parse_reference
    px_parsed,     \* what parse_reference returned
    px_norm        \* what normalize_records made of refs

\* one call of _clean_title (SpecTitle)
VARIABLES
    tc_pc,         \* position: "in", "done"
    tc_title,      \* the title passed in
    tc_out         \* what _clean_title returned

\* the import of a detector module and its first term test (SpecTerms)
VARIABLES
    tm_pc,         \* position: "import", "ready", "exited", "detected"
    tm_module,     \* "keyword_hits" or "find_bibliography"
    tm_csv,        \* bibliography_terms.csv: whether it exists, its rows of cells
    tm_terms,      \* TERMS / BIB_TERMS after the import
    tm_text,       \* the text the term pattern is searched in
    tm_hit         \* whether the term pattern was found in tm_text

\* stage 2 of detect_bibliography on a given font cache (SpecHeading)
VARIABLES
    hd_pc,         \* position: "cache", "analysed", "done"
    hd_cache,      \* the content of meta/<stem>/font_cluster.json
    hd_barrier,    \* toc_barrier
    hd_chaps,      \* what analyse_file returned
    hd_doc,        \* the page texts of the PDF that _detect_block read
    hd_out         \* how stage 2 ended: return, raise or fall through

\* one run of refine(), the oracle refinement of _evaluate (SpecOracle)
VARIABLES
    or_pc,         \* position of refine(): "loop", "gather", "done", "skipped"
    or_forced,     \* option gpt_only
    or_scores,     \* the scores of _score_page
    or_oracle,     \* what the oracle answers to every request it answers
    or_task,       \* per page: the state of its task
    or_sem,        \* the value of the semaphore
    or_waiters,    \* the tasks blocked in sem.acquire(), first come first
    or_out         \* scores after refine()

\* one call of extract_references on the pages of a document, with its pool
\* of worker threads (SpecPool)
VARIABLES
    tp_pc,         \* position: "start", "pool", "done"
    tp_pages,      \* page_txt: per page its physical lines
    tp_cfg,        \* use_gpt, whether openai has a key, the line_parser
    tp_cache,      \* _STYLE_CACHE when the call begins
    tp_style,      \* style
    tp_oracle,     \* what happened in _gpt_detect: called, asked, the reply
    tp_queue,      \* the work queue of the executor: pages not yet taken
    tp_work,       \* per worker thread: the page it parses (0 = idle)
    tp_fut,        \* per page: its future, done or not, and its result
    tp_next,       \* the future the main thread waits for next
    tp_refs        \* refs

\* calls of _gpt_detect, one after the other, in one process (SpecCache)
VARIABLES
    gc_pc,         \* position: "ready", "waiting" (in the await of the request)
    gc_has_key,    \* openai is installed and has an API key
    gc_now,        \* time.time(), in seconds
    gc_cache,      \* _STYLE_CACHE
    gc_req,        \* the call that waits: its sample, its key, its now
    gc_hist        \* the calls that have returned, in order

\* one call of detect_style_and_type (SpecSignals)
VARIABLES
    sd_pc,         \* position: "in", "done"; "in_cleaned", "done_cleaned"
    sd_sig,        \* what the searches of the function find in the line
    sd_out         \* the scores, style_family and entry_type

cascadeVars == <<pc, impl, pageCount, kw_min_block, toc_pg, fontCache, result,
                 raised, trace, hitStage, obs>>

evalVars == <<ev_pc, ev_opt, ev_scores, ev_med, ev_answers, ev_refined, ev_out>>

dedupeVars == <<dd_pc, dd_mode, dd_thr, dd_in, dd_out, dd_out2>>

parseVars == <<px_pc, px_txt, px_use_gpt, px_line_parser, px_style, px_todo, px_out,
               px_log, px_line, px_parsed, px_norm>>

titleVars == <<tc_pc, tc_title, tc_out>>

termVars == <<tm_pc, tm_module, tm_csv, tm_terms, tm_text, tm_hit>>

headVars == <<hd_pc, hd_cache, hd_barrier, hd_chaps, hd_doc, hd_out>>

\* the variables of the specifications after SpecParse
oracleVars == <<or_pc, or_forced, or_scores, or_oracle, or_task, or_sem, or_waiters,
                or_out>>

poolVars == <<tp_pc, tp_pages, tp_cfg, tp_cache, tp_style, tp_oracle, tp_queue,
              tp_work, tp_fut, tp_next, tp_refs>>

\* the variables of the specifications after SpecOracle
cacheVars == <<gc_pc, gc_has_key, gc_now, gc_cache, gc_req, gc_hist>>

sigVars == <<sd_pc, sd_sig, sd_out>>

newVars == <<poolVars, cacheVars, sigVars>>

laterVars == <<titleVars, termVars, headVars, oracleVars, newVars>>

\* what each specification leaves alone
outsideCascade == <<evalVars, dedupeVars, parseVars, laterVars>>
outsideEval    == <<cascadeVars, dedupeVars, parseVars, laterVars>>
outsideDedupe  == <<cascadeVars, evalVars, parseVars, laterVars>>
outsideParse   == <<cascadeVars, evalVars, dedupeVars, laterVars>>
outsideTitle   == <<cascadeVars, evalVars, dedupeVars, parseVars, termVars, headVars,
                    oracleVars, newVars>>
outsideTerms   == <<cascadeVars, evalVars, dedupeVars, parseVars, titleVars, headVars,
                    oracleVars, newVars>>
outsideHeading == <<cascadeVars, evalVars, dedupeVars, parseVars, titleVars, termVars,
                    oracleVars, newVars>>
outsideOracle  == <<cascadeVars, evalVars, dedupeVars, parseVars, titleVars, termVars,
                    headVars, newVars>>
oldVars        == <<cascadeVars, evalVars, dedupeVars, parseVars, titleVars, termVars,
                    headVars, oracleVars>>
outsidePool    == <<oldVars, cacheVars, sigVars>>
outsideCache   == <<oldVars, poolVars, sigVars>>
outsideSignals == <<oldVars, poolVars, cacheVars>>

vars == <<cascadeVars, evalVars, dedupeVars, parseVars, laterVars>>

NoObs == [stage |-> "", in |-> <<>>, out |-> <<>>]

\* no cascade is under observation
CascadeIdle ==
    /\ pc = "idle"
    /\ impl = "find_bibliography"
    /\ pageCount = 0
    /\ kw_min_block = 0
    /\ toc_pg = -1
    /\ fontCache = FALSE
    /\ result = <<>>
    /\ raised = ""
    /\ trace = <<>>
    /\ hitStage = ""
    /\ obs = NoObs

\* no call of _evaluate is under observation
EvalIdle ==
    /\ ev_pc = "idle"
    /\ ev_opt = <<>>
    /\ ev_scores = <<>>
    /\ ev_med = 0
    /\ ev_answers = <<>>
    /\ ev_refined = <<>>
    /\ ev_out = <<>>

\* no call of dedupe_records is under observation
DedupeIdle ==
    /\ dd_pc = "idle"
    /\ dd_mode = ""
    /\ dd_thr = 0
    /\ dd_in = <<>>
    /\ dd_out = <<>>
    /\ dd_out2 = <<>>

\* no call of extract_references or parse_reference is under observation
ParseIdle ==
    /\ px_pc = "idle"
    /\ px_txt = <<>>
    /\ px_use_gpt = FALSE
    /\ px_line_parser = FALSE
    /\ px_style = ""
    /\ px_todo = <<>>
    /\ px_out = <<>>
    /\ px_log = <<>>
    /\ px_line = <<>>
    /\ px_parsed = <<>>
    /\ px_norm = <<>>

\* no call of _clean_title is under observation
TitleIdle ==
    /\ tc_pc = "idle"
    /\ tc_title = <<>>
    /\ tc_out = <<>>

\* no import of a detector module is under observation
TermsIdle ==
    /\ tm_pc = "idle"
    /\ tm_module = ""
    /\ tm_csv = [exists |-> FALSE, rows |-> <<>>]
    /\ tm_terms = {}
    /\ tm_text = <<>>
    /\ tm_hit = FALSE

\* no heading stage is under observation
HeadingIdle ==
    /\ hd_pc = "idle"
    /\ hd_cache = <<>>
    /\ hd_barrier = 0
    /\ hd_chaps = <<>>
    /\ hd_doc = <<>>
    /\ hd_out = <<>>

\* no oracle refinement is under observation
OracleIdle ==
    /\ or_pc = "idle"
    /\ or_forced = FALSE
    /\ or_scores = <<>>
    /\ or_oracle = ""
    /\ or_task = <<>>
    /\ or_sem = 0
    /\ or_waiters = <<>>
    /\ or_out = <<>>

\* no call of extract_references with its thread pool is under observation
PoolIdle ==
    /\ tp_pc = "idle"
    /\ tp_pages = <<>>
    /\ tp_cfg = <<>>
    /\ tp_cache = {}
    /\ tp_style = ""
    /\ tp_oracle = <<>>
    /\ tp_queue = <<>>
    /\ tp_work = <<>>
    /\ tp_fut = <<>>
    /\ tp_next = 0
    /\ tp_refs = <<>>

\* no sequence of calls of _gpt_detect is under observation
CacheIdle ==
    /\ gc_pc = "idle"
    /\ gc_has_key = FALSE
    /\ gc_now = 0
    /\ gc_cache = {}
    /\ gc_req = <<>>
    /\ gc_hist = <<>>

\* no call of detect_style_and_type is under observation
SignalsIdle ==
    /\ sd_pc = "idle"
    /\ sd_sig = <<>>
    /\ sd_out = <<>>

NewIdle == PoolIdle /\ CacheIdle /\ SignalsIdle

LaterIdle == TitleIdle /\ TermsIdle /\ HeadingIdle /\ OracleIdle /\ NewIdle

OldIdle ==
    /\ CascadeIdle /\ EvalIdle /\ DedupeIdle /\ ParseIdle
    /\ TitleIdle /\ TermsIdle /\ HeadingIdle /\ OracleIdle

\* ------------------------------------------------------------- helpers
Range(s) == {s[i] : i \in DOMAIN s}

Min(S) == CHOOSE x \in S : \A y \in S : x <= y
Max(S) == CHOOSE x \in S : \A y \in S : x >= y

\* sequences over S of length lo..hi
SeqsOf(S, lo, hi) == UNION {[1..k -> S] : k \in lo..hi}

\* math.ceil(a / b) for a >= 0, b > 0
CeilDiv(a, b) == (a + b - 1) \div b

RECURSIVE SumSeq(_)
SumSeq(s) == IF s = <<>> THEN 0 ELSE Head(s) + SumSeq(Tail(s))

\* sorted(s) / list.sort(), ascending
RECURSIVE Insert(_, _)
Insert(x, s) ==
    IF s = <<>> THEN <<x>>
    ELSE IF x <= Head(s) THEN <<x>> \o s ELSE <<Head(s)>> \o Insert(x, Tail(s))

RECURSIVE SortAsc(_)
SortAsc(s) == IF s = <<>> THEN <<>> ELSE Insert(Head(s), SortAsc(Tail(s)))

\* ===================================================================
\* Stage 0: table of contents  (services/delb/extract_toc.py)
\* ===================================================================
\* A line of a table of contents, as far as the detectors read it:
\*   key  the bibliography keyword it contains ("" = none),
\*   num  the trailing page number matched by _TOC_NUM (NoNum = no match).
\* Numbered lines are written "title ...... N", the format that
\* _outline_fallback produces, so DOT_LEADER_RE and NUM_RE match them too.
TocKeyWords == {"", "reference", "quellen"}

\* _TOC_KEYS of either implementation, restricted to TocKeyWords
TOC_KEYS(im) ==
    IF im = "find_bibliography" THEN {"reference"} ELSE {"reference", "quellen"}

TocNums(n) == {NoNum, 0, 1, n + 1}

TocLines(n) == [key : TocKeyWords, num : TocNums(n)]

\* text of one page as pdfplumber extracts it: its non-blank lines and
\* whether it contains one of BASE_KEYWORDS ("contents", "indice", ...).
\* ws: the text is not empty and holds white space only (then it has no
\* lines).  With no lines and ws = FALSE the text is "" (or None).
TocTexts(n) ==
    {t \in [kwd : BOOLEAN, ws : BOOLEAN, lines : SeqsOf(TocLines(n), 0, MaxTocLines)] :
        /\ t.lines = <<>> => ~t.kwd
        /\ t.ws => t.lines = <<>>}

ProsePage == [kwd |-> FALSE, ws |-> FALSE, lines |-> <<[key |-> "", num |-> NoNum]>>]

\* doc.get_toc(simple=True): [lvl, title, page]; PyMuPDF gives page 1-based,
\* or -1 for a bookmark without target
OutlineEntries(n) == [key : TocKeyWords, pg : {-1, 1, n}]

\* (n + 2) // 3 : the pages the heuristic scan reads when max_pages is None
ScanLimit(n) == (n + 2) \div 3

\* what stage 0 reads of a document: either an outline, or the texts of the
\* first third of the pages, of which at most one is not plain prose
TocInputs(n) ==
    {[outline |-> o, texts |-> [i \in 1..ScanLimit(n) |-> ProsePage]] :
        o \in SeqsOf(OutlineEntries(n), 1, MaxTocLines)}
    \cup
    {[outline |-> <<>>,
      texts |-> [i \in 1..ScanLimit(n) |-> IF i = p THEN t ELSE ProsePage]] :
        p \in 1..ScanLimit(n), t \in TocTexts(n)}

outline_fallback(outline) ==
    IF outline = <<>>
    THEN [exc |-> "", page |-> NoNum, lines |-> <<>>]
    ELSE [exc   |-> "",
          page  |-> outline[1].pg + 1,
          lines |-> [i \in DOMAIN outline |->
                        [key |-> outline[i].key, num |-> outline[i].pg + 1]]]

\* _looks_like_toc(text, lang): "if not text: return False", the keywords,
\* then "dotted >= 3 or (numbered / len(lines) > 0.6 and numbered >= 4)",
\* where the division is evaluated only when dotted < 3
looks_like_toc(t) ==
    IF t.lines = <<>> /\ ~t.ws THEN [exc |-> "", val |-> FALSE]
    ELSE IF t.kwd THEN [exc |-> "", val |-> TRUE]
    ELSE LET dotted   == Cardinality({i \in DOMAIN t.lines : t.lines[i].num # NoNum})
             numbered == dotted
         IN  IF dotted >= 3 THEN [exc |-> "", val |-> TRUE]
             ELSE IF Len(t.lines) = 0
                  THEN [exc |-> "ZeroDivisionError", val |-> FALSE]
                  ELSE [exc |-> "",
                        val |-> numbered * 10 > 6 * Len(t.lines) /\ numbered >= 4]

RECURSIVE scan_from(_, _, _)
scan_from(texts, idx, limit) ==
    IF idx > limit THEN [exc |-> "", page |-> NoNum, lines |-> <<>>]
    ELSE IF looks_like_toc(texts[idx]).exc # ""
         THEN [exc |-> looks_like_toc(texts[idx]).exc, page |-> NoNum, lines |-> <<>>]
         ELSE IF looks_like_toc(texts[idx]).val
              THEN [exc |-> "", page |-> idx, lines |-> texts[idx].lines]
              ELSE scan_from(texts, idx + 1, limit)

\* _scan_pdf(pdf, max_pages=None, use_ocr=False) -> (page, lines)
scan_pdf(doc, n) ==
    LET ol == outline_fallback(doc.outline)
    IN  IF ol.page # NoNum /\ ol.page # 0
        THEN ol
        ELSE scan_from(doc.texts, 1, ScanLimit(n))

\* _bib_from_toc / _page_from_toc: the number of the first line that holds a
\* keyword and a trailing number
RECURSIVE bib_from_toc(_, _)
bib_from_toc(lines, keys) ==
    IF lines = <<>> THEN NoNum
    ELSE IF Head(lines).key \in keys /\ Head(lines).num # NoNum
         THEN Head(lines).num
         ELSE bib_from_toc(Tail(lines), keys)

\* Python truth value of an Optional[int]
Truthy(x) == x # NoNum /\ x # 0

\* stage 0 of services/delb/find_bibliography.py
toc_stage_find(scan) ==
    LET bib == bib_from_toc(scan.lines, TOC_KEYS("find_bibliography"))
    IN  IF Truthy(bib) THEN <<bib, bib>> ELSE None

\* stage 0 of services/bib_orchestrator.py
toc_stage_orch(scan, n) ==
    IF scan.lines = <<>> THEN None
    ELSE LET bib_pg == bib_from_toc(scan.lines, TOC_KEYS("bib_orchestrator"))
         IN  IF ~Truthy(bib_pg) THEN None
             ELSE LET last_num ==
                          Max({scan.lines[i].num : i \in
                                 {j \in DOMAIN scan.lines : scan.lines[j].num # NoNum}})
                  IN  IF bib_pg = last_num THEN <<bib_pg, n>> ELSE <<bib_pg, bib_pg>>

\* ===================================================================
\* Stage 1: keyword block  (services/delb/keyword_hits.py)
\* ===================================================================
\* analyse_pdf: the 1-based numbers of the pages whose text holds a term,
\* in page order (pool.map keeps the order of its arguments)
RECURSIVE analyse_pdf_kw(_, _)
analyse_pdf_kw(hit, i) ==
    IF i > Len(hit) THEN <<>>
    ELSE (IF hit[i] THEN <<i>> ELSE <<>>) \o analyse_pdf_kw(hit, i + 1)

\* the loop that cuts the sorted hits into runs of consecutive numbers;
\* runs: finished runs, cur: the run being built
RECURSIVE kw_runs_loop(_, _, _)
kw_runs_loop(rest, runs, cur) ==
    IF rest = <<>> THEN Append(runs, cur)
    ELSE IF Head(rest) = cur[Len(cur)] + 1
         THEN kw_runs_loop(Tail(rest), runs, Append(cur, Head(rest)))
         ELSE kw_runs_loop(Tail(rest), Append(runs, cur), <<Head(rest)>>)

kw_runs(kw_pages) == kw_runs_loop(Tail(kw_pages), <<>>, <<kw_pages[1]>>)

\* faulty variant of max_by_len: the last run of the greatest length
RECURSIVE max_by_len_last(_, _)
max_by_len_last(runs, best) ==
    IF runs = <<>> THEN best
    ELSE max_by_len_last(Tail(runs),
                         IF Len(Head(runs)) >= Len(best) THEN Head(runs) ELSE best)

\* max(runs, key=len): the first run of the greatest length
RECURSIVE max_by_len(_, _)
max_by_len(runs, best) ==
    IF runs = <<>> THEN best
    ELSE max_by_len(Tail(runs),
                    IF Len(Head(runs)) > Len(best) THEN Head(runs) ELSE best)

best_run(runs) == max_by_len(Tail(runs), Head(runs))

\* stage 1 of detect_bibliography (the same code in both implementations)
kw_stage(kw_pages, kmin) ==
    IF kw_pages = <<>> THEN None
    ELSE LET best == best_run(kw_runs(SortAsc(kw_pages)))
         IN  IF Len(best) >= kmin THEN <<best[1], best[Len(best)]>> ELSE None

\* ===================================================================
\* Stage 3: interval scorer  (services/delb/find_bibliography.py)
\* ===================================================================
\* Scores are kept exact: a score s is the integer s * ScoreDen.
LinesPerPage == 10                  \* non-blank lines of a page with text
ScoreDen     == 300 * LinesPerPage

\* the text of a page, as far as _score_page reads it:
\*   blank  no text (txt.strip() is empty)
\*   hdr    the first 8 lines hold a bibliography term and caps >= HDR_CAPS_MIN
\*   cite   number of lines that _is_cite_line accepts
PageTexts ==
    { [blank |-> TRUE,  hdr |-> FALSE, cite |-> 0],
      [blank |-> FALSE, hdr |-> FALSE, cite |-> 0],
      [blank |-> FALSE, hdr |-> FALSE, cite |-> 3],
      [blank |-> FALSE, hdr |-> TRUE,  cite |-> 3] }

\* _score_page: HDR_W * hdr_bonus + CITE_W * min(cite_ratio / CITE_RATIO_THR, 1),
\* floored at MIN_SCORE_ABS when cite_ratio >= 0.05
score_page(t) ==
    IF t.blank THEN 0
    ELSE LET hdrPart  == (IF t.hdr THEN 180 ELSE 108) * LinesPerPage
             citePart == IF 400 * t.cite < 120 * LinesPerPage
                         THEN 400 * t.cite ELSE 120 * LinesPerPage
             score    == hdrPart + citePart
         IN  IF 20 * t.cite >= LinesPerPage
             THEN (IF score > 135 * LinesPerPage THEN score ELSE 135 * LinesPerPage)
             ELSE score

\* 2 * statistics.median(scores), for a non-empty list
median2(scores) ==
    LET srt == SortAsc(scores)
        n   == Len(srt)
    IN  IF n % 2 = 1 THEN 2 * srt[(n + 1) \div 2]
        ELSE srt[n \div 2] + srt[n \div 2 + 1]

\* sum of scores[a..b], positions 0-based as in the code
SliceSum(scores, a, b) == SumSeq(SubSeq(scores, a + 1, b + 1))

\* _choose_better: intervals are pairs <<first, last>> of 0-based positions
choose_better(cur, cand, scores) ==
    IF cur = None THEN cand
    ELSE LET curLen  == cur[2] - cur[1] + 1
             candLen == cand[2] - cand[1] + 1
             \* cand_avg ? cur_avg, cross-multiplied
             candAvg == SliceSum(scores, cand[1], cand[2]) * curLen
             curAvg  == SliceSum(scores, cur[1], cur[2]) * candLen
         IN  IF candAvg > curAvg \/ (candAvg = curAvg /\ candLen > curLen)
             THEN cand ELSE cur

\* the loop "for idx, sc in enumerate(scores)" of _evaluate and the step
\* after it; cur = NoNum stands for None
RECURSIVE best_interval_loop(_, _, _, _, _, _)
best_interval_loop(scores, med2, boost, idx, best, cur) ==
    IF idx = Len(scores)
    THEN IF cur # NoNum
         THEN choose_better(best, <<cur, Len(scores) - 1>>, scores)
         ELSE best
    ELSE IF scores[idx + 1] * 200 >= med2 * boost
         THEN best_interval_loop(scores, med2, boost, idx + 1, best,
                                 IF cur = NoNum THEN idx ELSE cur)
         ELSE IF cur # NoNum
              THEN best_interval_loop(scores, med2, boost, idx + 1,
                                      choose_better(best, <<cur, idx - 1>>, scores),
                                      NoNum)
              ELSE best_interval_loop(scores, med2, boost, idx + 1, best, cur)

best_interval(scores, med2, boost) ==
    best_interval_loop(scores, med2, boost, 0, None, NoNum)

MIN_BLOCK_LEN == 2

\* the end of _evaluate: the interval as 1-based absolute page numbers.
\* pages: the 0-based page indices in the order they were pulled
select_interval(pages, scores, med2, boost) ==
    LET best == best_interval(scores, med2, boost)
    IN  IF best # None /\ best[2] - best[1] + 1 >= MIN_BLOCK_LEN
        THEN LET abs_pages == {pages[i + 1] + 1 : i \in best[1]..best[2]}
             IN  <<Min(abs_pages), Max(abs_pages)>>
        ELSE None

\* GPT refinement of _evaluate.  answers[i] is what the request for page
\* i would give: "B" (bibliography), "N" (not), "E" (it raises).
\* asyncio.gather without return_exceptions re-raises the first exception,
\* the loop that sets scores is then never entered.
gpt_asked(scores, gpt_only) ==
    {i \in DOMAIN scores : gpt_only \/ scores[i] * 100 < 75 * ScoreDen}

refine(scores, answers, gpt_only) ==
    LET asked == gpt_asked(scores, gpt_only)
    IN  IF \E i \in asked : answers[i] = "E"
        THEN scores
        ELSE [i \in DOMAIN scores |->
                IF i \in asked /\ answers[i] = "B" THEN ScoreDen ELSE scores[i]]

NoGpt == [use |-> FALSE, only |-> FALSE, answers |-> <<>>]

\* _evaluate(pages): texts[i] is the text of page index pages[i]
evaluate(pages, texts, boost, gpt) ==
    IF pages = <<>>
    THEN [exc |-> "StatisticsError", val |-> None]     \* median of no data
    ELSE LET scores0 == [i \in DOMAIN pages |-> score_page(texts[i])]
             med2    == median2(scores0)
             scores  == IF gpt.use THEN refine(scores0, gpt.answers, gpt.only)
                        ELSE scores0
         IN  [exc |-> "", val |-> select_interval(pages, scores, med2, boost)]

\* _pull_pages: head pages ascending, then tail pages descending (0-based)
pull_pages(n, headPct, tailPct) ==
    LET head_n == CeilDiv(n * headPct, 100)
        tail_n == CeilDiv(n * tailPct, 100)
        lo     == IF n - tail_n - 1 > -1 THEN n - tail_n - 1 ELSE -1
    IN  [i \in 1..head_n |-> i - 1] \o [j \in 1..(n - 1 - lo) |-> n - j]

all_pages(n) == [i \in 1..n |-> i - 1]

TextsOf(doc, pages) == [i \in DOMAIN pages |-> doc[pages[i] + 1]]

\* _detect_block(pdf, head, tail, boost): fast path, then full scan
detect_block(doc, headPct, tailPct, boost, gpt) ==
    LET n    == Len(doc)
        smp  == pull_pages(n, headPct, tailPct)
        fast == evaluate(smp, TextsOf(doc, smp), boost, gpt)
    IN  IF fast.exc # "" \/ fast.val # None THEN fast
        ELSE evaluate(all_pages(n), doc, boost, gpt)

\* defaults of detect_bibliography
HeadPct  == 5
TailPct  == 25
BoostPct == 100

\* ===================================================================
\* Stage 2: heading fonts  (scan_fonts.py, detect_chapters.py)
\* ===================================================================
\* A font key is (name, size, style flag).  The fonts of the documents below:
F_body == <<"Body", 10, 0>>
F_head == <<"Head", 14, 1>>
F_foot == <<"Foot", 8, 0>>

\* font_ranking: [font, size, style, charCount], most used first
FontRanking == <<F_body \o <<900>>, F_head \o <<40>>>>

\* scan_fonts.analyse_pdf: every entry of "pages" is a dict with the keys
\* "page" and "fonts"; the ranking is empty when no page holds a text span
font_scan(n, anyText) ==
    LET rank == IF anyText THEN FontRanking ELSE <<>>
    IN  [font_ranking |-> rank,
         pages        |-> [i \in 1..n |-> [page |-> i, fonts |-> rank]]]

TOP_N_FONTS    == 10
MIN_FONT_VOTES == 3
MAX_TITLE_LEN  == 120

\* The text of a span, as far as ok_string and _RE_BIB_HDR read it: its
\* length after strip(), the number of its letters and of its digits, and
\* whether _RE_BIB_HDR is found in it.
H_refs      == [id |-> "References",      len |-> 10, alpha |-> 10, digit |-> 0, bib |-> TRUE]
H_refs_year == [id |-> "References 2019", len |-> 15, alpha |-> 10, digit |-> 4, bib |-> TRUE]
H_intro     == [id |-> "Introduction",    len |-> 12, alpha |-> 12, digit |-> 0, bib |-> FALSE]

\* ok_string: alpha / len >= ALPHA_MIN and digit / len <= DIGIT_MAX
ok_string(t) ==
    /\ t.len > 0
    /\ t.len <= MAX_TITLE_LEN
    /\ 100 * t.alpha >= 60 * t.len
    /\ 100 * t.digit <= 15 * t.len

\* p.get(key, [])
dict_get(p, key) == IF key \in DOMAIN p THEN p[key] ELSE <<>>

\* the font filter of analyse_file: in_top10 or in_head or size_ok
font_passes(font, p, rank) ==
    \/ font \in {SubSeq(rank[i], 1, 3) : i \in 1..Min({TOP_N_FONTS, Len(rank)})}
    \/ font \in Range(dict_get(p, "heading"))
    \/ 100 * font[2] >= 105 * rank[1][2]

\* the hits that the spans of page p add, in the order of the spans
RECURSIVE span_hits(_, _, _)
span_hits(spans, p, rank) ==
    IF spans = <<>> THEN <<>>
    ELSE (IF ok_string(Head(spans).txt) /\ font_passes(Head(spans).font, p, rank)
          THEN <<[page |-> p.n, text |-> Head(spans).txt, font |-> Head(spans).font]>>
          ELSE <<>>)
         \o span_hits(Tail(spans), p, rank)

\* the loop "for p in data['pages']"
RECURSIVE page_hits(_, _)
page_hits(pages, rank) ==
    IF pages = <<>> THEN <<>>
    ELSE span_hits(dict_get(Head(pages), "spans"), Head(pages), rank)
         \o page_hits(Tail(pages), rank)

\* font_votes[(font, text)]
font_votes(hits, font, text) ==
    Cardinality({i \in DOMAIN hits : hits[i].font = font /\ hits[i].text = text})

\* chapters = [h for h in hits if (h["font"], h["text"]) in accepted]
chapters_of(hits) ==
    LET Accepted(h) == font_votes(hits, h.font, h.text) >= MIN_FONT_VOTES
    IN  SelectSeq(hits, Accepted)

\* detect_chapters.analyse_file on the JSON data: any exception gives
\* (stem, None, error).  It reads p["n"] of every page.
analyse_file(data) ==
    IF data.font_ranking = <<>>
    THEN [ok |-> FALSE, chapters |-> <<>>]           \* ValueError
    ELSE IF \E i \in DOMAIN data.pages : "n" \notin DOMAIN data.pages[i]
         THEN [ok |-> FALSE, chapters |-> <<>>]      \* KeyError 'n'
         ELSE [ok |-> TRUE,
               chapters |-> chapters_of(page_hits(data.pages, data.font_ranking))]

\* headings that match _RE_BIB_HDR behind the table-of-contents page
bib_hdrs(chaps, toc_barrier) ==
    LET Keep(h) == h.text.bib /\ h.page > toc_barrier
    IN  SelectSeq(chaps.chapters, Keep)

\* "return block if block and block[0] <= first <= block[1] else (first, first)"
heading_result(hdrs, block) ==
    LET first == Min({hdrs[i].page : i \in DOMAIN hdrs})
    IN  IF block.exc # "" THEN block
        ELSE IF block.val # None /\ block.val[1] <= first /\ first <= block.val[2]
             THEN block
             ELSE [exc |-> "", val |-> <<first, first>>]

\* stage 3 of services/bib_orchestrator.py calls extract_toc.detect, which is
\* langdetect.detect(text) (or lambda _txt), with keyword arguments
detect_text_orch == [exc |-> "TypeError", val |-> None]

\* ===================================================================
\* The cascade detect_bibliography
\* ===================================================================
Docs(n) == [1..n -> PageTexts]

Init ==
    /\ EvalIdle
    /\ DedupeIdle
    /\ ParseIdle
    /\ LaterIdle
    /\ pc = "toc"
    /\ impl \in Impls
    /\ pageCount \in 1..MaxPages
    /\ kw_min_block \in 1..MaxKwMinBlock
    /\ toc_pg = NoNum
    /\ fontCache = FALSE
    /\ result = None
    /\ raised = ""
    /\ trace = <<>>
    /\ hitStage = ""
    /\ obs = NoObs

\* faulty variant of Return: the value is kept but control goes on to the
\* next stage, as if the return statement were missing in stages 0 and 1
Return_NoStop(v, st) ==
    /\ pc' = (IF st = "toc" THEN "kw" ELSE IF st = "kw" THEN "fonts" ELSE "done")
    /\ result' = v
    /\ hitStage' = st
    /\ raised' = ""

\* "return v" out of stage st
Return(v, st) ==
    /\ pc' = "done"
    /\ result' = v
    /\ hitStage' = st
    /\ raised' = ""

\* an exception leaves detect_bibliography
Raise(exc) ==
    /\ pc' = "done"
    /\ result' = None
    /\ hitStage' = ""
    /\ raised' = exc

\* control falls through to the next stage
Fall(next) ==
    /\ pc' = next
    /\ UNCHANGED <<result, hitStage, raised>>

toc_stage(im, scan, n) ==
    IF im = "find_bibliography" THEN toc_stage_find(scan) ELSE toc_stage_orch(scan, n)

\* 0) table of contents.  The input of a stage that missed is dropped: its
\* lines are not read again.
TocStage ==
    /\ pc = "toc"
    /\ \E doc \in TocInputs(pageCount) :
         LET scan == scan_pdf(doc, pageCount)
             res  == toc_stage(impl, scan, pageCount)
         IN  /\ toc_pg' = scan.page
             /\ trace' = Append(trace, "toc")
             /\ IF scan.exc # ""
                THEN /\ Raise(scan.exc)
                     /\ obs' = [stage |-> "toc", in |-> doc, out |-> None]
                ELSE IF res # None
                THEN /\ Return(res, "toc")
                     /\ obs' = [stage |-> "toc", in |-> doc, out |-> res]
                ELSE /\ Fall("kw")
                     /\ obs' = [stage |-> "toc", in |-> None, out |-> None]
    /\ UNCHANGED <<impl, pageCount, kw_min_block, fontCache, outsideCascade>>

\* 1) keyword block
KeywordStage ==
    /\ pc = "kw"
    /\ \E hit \in [1..pageCount -> BOOLEAN] :
         LET kw_pages == analyse_pdf_kw(hit, 1)
             res      == kw_stage(kw_pages, kw_min_block)
         IN  /\ trace' = Append(trace, "kw")
             /\ obs' = [stage |-> "kw", in |-> kw_pages, out |-> res]
             /\ IF res # None THEN Return(res, "kw") ELSE Fall("fonts")
    /\ UNCHANGED <<impl, pageCount, kw_min_block, toc_pg, fontCache, outsideCascade>>

\* 2) heading fonts: scan, write the cache, analyse it
HeadingStage ==
    /\ pc = "fonts"
    /\ trace' = Append(trace, "fonts")
    /\ fontCache' = TRUE
    /\ \E anyText \in BOOLEAN :
         LET chaps == analyse_file(font_scan(pageCount, anyText))
             hdrs  == bib_hdrs(chaps, IF Truthy(toc_pg) THEN toc_pg ELSE 0)
         IN  IF chaps.ok /\ hdrs # <<>>
             THEN \E doc \in Docs(pageCount) :
                    LET block == IF impl = "find_bibliography"
                                 THEN detect_block(doc, 0, 0, BoostPct, NoGpt)
                                 ELSE detect_text_orch
                        res   == heading_result(hdrs, block)
                    IN  /\ obs' = [stage |-> "fonts", in |-> doc, out |-> res.val]
                        /\ IF res.exc # "" THEN Raise(res.exc)
                           ELSE Return(res.val, "fonts")
             ELSE /\ obs' = [stage |-> "fonts", in |-> anyText, out |-> None]
                  /\ Fall("heur")
    /\ UNCHANGED <<impl, pageCount, kw_min_block, toc_pg, outsideCascade>>

\* faulty variant of HeurFast: the full scan follows the fast path whether
\* or not the fast path found an interval
HeurFast_FullAlways ==
    /\ pc = "heur"
    /\ trace' = Append(trace, "heur")
    /\ IF impl = "bib_orchestrator"
       THEN /\ obs' = [stage |-> "heur", in |-> None, out |-> None]
            /\ Raise(detect_text_orch.exc)
       ELSE \E doc \in Docs(pageCount) :
              LET smp  == pull_pages(pageCount, HeadPct, TailPct)
                  fast == evaluate(smp, TextsOf(doc, smp), BoostPct, NoGpt)
              IN  /\ obs' = [stage |-> "heur", in |-> doc, out |-> fast.val]
                  /\ IF fast.exc # "" THEN Raise(fast.exc)
                     ELSE Fall("fullscan")
    /\ UNCHANGED <<impl, pageCount, kw_min_block, toc_pg, fontCache, outsideCascade>>

\* 3) interval scorer, fast path: head and tail pages only
HeurFast ==
    /\ pc = "heur"
    /\ trace' = Append(trace, "heur")
    /\ IF impl = "bib_orchestrator"
       THEN /\ obs' = [stage |-> "heur", in |-> None, out |-> None]
            /\ Raise(detect_text_orch.exc)
       ELSE \E doc \in Docs(pageCount) :
              LET smp  == pull_pages(pageCount, HeadPct, TailPct)
                  fast == evaluate(smp, TextsOf(doc, smp), BoostPct, NoGpt)
              IN  /\ obs' = [stage |-> "heur", in |-> doc, out |-> fast.val]
                  /\ IF fast.exc # "" THEN Raise(fast.exc)
                     ELSE IF fast.val # None THEN Return(fast.val, "heur")
                     ELSE Fall("fullscan")
    /\ UNCHANGED <<impl, pageCount, kw_min_block, toc_pg, fontCache, outsideCascade>>

\* 3) interval scorer, full scan after the fast path missed; "return bounds"
HeurFull ==
    /\ pc = "fullscan"
    /\ LET full == evaluate(all_pages(pageCount), obs.in, BoostPct, NoGpt)
       IN  /\ obs' = [stage |-> "fullscan", in |-> obs.in, out |-> full.val]
           /\ IF full.exc # "" THEN Raise(full.exc)
              ELSE Return(full.val, IF full.val # None THEN "heur" ELSE "")
    /\ UNCHANGED <<impl, pageCount, kw_min_block, toc_pg, fontCache, trace, outsideCascade>>

Next == TocStage \/ KeywordStage \/ HeadingStage \/ HeurFast \/ HeurFull

Spec == Init /\ [][Next]_vars

\* ===================================================================
\* One call of _detect_block._evaluate, with the oracle  (SpecEval)
\* ===================================================================
MaxEvalPages == 4      \* pages handed to one call of _evaluate

\* boost, in percent
Boosts == {100, 120}

\* outcome of one oracle request: "B" the answer starts with B, "N" any
\* other answer, "E" the request raises (network error, timeout, ...),
\* "-" the page is not asked (asyncio.sleep(0) stands in for it)
Outcomes == {"B", "N", "E"}

InitEval ==
    /\ CascadeIdle
    /\ DedupeIdle
    /\ ParseIdle
    /\ LaterIdle
    /\ ev_pc = "score"
    /\ ev_opt \in [boost : Boosts, use_gpt : BOOLEAN, gpt_only : BOOLEAN]
    /\ ev_scores = <<>>
    /\ ev_med = 0
    /\ ev_answers = <<>>
    /\ ev_refined = <<>>
    /\ ev_out = None

\* scores = [_score_page(t) for t in pages]; med = statistics.median(scores)
EvScore ==
    /\ ev_pc = "score"
    /\ \E texts \in SeqsOf(PageTexts, 1, MaxEvalPages) :
         LET sc == [i \in DOMAIN texts |-> score_page(texts[i])]
         IN  /\ ev_scores' = sc
             /\ ev_med' = median2(sc)
             /\ ev_refined' = sc
    /\ ev_pc' = IF ev_opt.use_gpt THEN "refine" ELSE "select"
    /\ UNCHANGED <<ev_opt, ev_answers, ev_out, outsideEval>>

\* asyncio.run(refine()) inside try/except Exception
EvRefine ==
    /\ ev_pc = "refine"
    /\ \E ans \in [DOMAIN ev_scores -> Outcomes \cup {"-"}] :
         /\ \A i \in DOMAIN ev_scores :
               ans[i] = "-" <=> i \notin gpt_asked(ev_scores, ev_opt.gpt_only)
         /\ ev_answers' = ans
         /\ ev_refined' = refine(ev_scores, ans, ev_opt.gpt_only)
    /\ ev_pc' = "select"
    /\ UNCHANGED <<ev_opt, ev_scores, ev_med, ev_out, outsideEval>>

\* the interval loop and the final length test
EvSelect ==
    /\ ev_pc = "select"
    /\ ev_out' = select_interval(all_pages(Len(ev_refined)), ev_refined,
                               ev_med, ev_opt.boost)
    /\ ev_pc' = "done"
    /\ UNCHANGED <<ev_opt, ev_scores, ev_med, ev_answers, ev_refined, outsideEval>>

NextEval == EvScore \/ EvRefine \/ EvSelect

SpecEval == InitEval /\ [][NextEval]_vars

\* ===================================================================
\* dedupe_records  (ref_normalizer.py)
\* ===================================================================
\* A str is a sequence of characters.  The characters that occur in the
\* records below, in code-point order:
Alphabet == <<" ", "A", "B", "C", "a", "b", "c", "d", "e", "f">>

ord(c) == CHOOSE i \in DOMAIN Alphabet : Alphabet[i] = c

UpperSeq == <<"A", "B", "C", "D", "E", "F", "G", "H", "I", "J", "K", "L", "M",
              "N", "O", "P", "Q", "R", "S", "T", "U", "V", "W", "X", "Y", "Z">>
LowerSeq == <<"a", "b", "c", "d", "e", "f", "g", "h", "i", "j", "k", "l", "m",
              "n", "o", "p", "q", "r", "s", "t", "u", "v", "w", "x", "y", "z">>

UpperChars == {UpperSeq[i] : i \in DOMAIN UpperSeq}
LowerChars == {LowerSeq[i] : i \in DOMAIN LowerSeq}
DigitChars == {"0", "1", "2", "3", "4", "5", "6", "7", "8", "9"}
WsChars    == {" ", "NBSP"}            \* the white space that occurs: \s

lower_char(c) ==
    IF c \in UpperChars
    THEN LowerSeq[CHOOSE i \in DOMAIN UpperSeq : UpperSeq[i] = c]
    ELSE c

\* str.lower()
lower(s) == [i \in DOMAIN s |-> lower_char(s[i])]

\* str.split(): the maximal runs of characters that are not white space
split(s) ==
    LET starts == {i \in DOMAIN s : s[i] \notin WsChars /\ (i = 1 \/ s[i - 1] \in WsChars)}
        stops  == {i \in DOMAIN s : s[i] \notin WsChars
                                    /\ (i = Len(s) \/ s[i + 1] \in WsChars)}
        kth(S, k) == CHOOSE i \in S : Cardinality({j \in S : j < i}) = k - 1
    IN  [k \in 1..Cardinality(starts) |-> SubSeq(s, kth(starts, k), kth(stops, k))]

\* s < t on str
RECURSIVE str_less(_, _)
str_less(s, t) ==
    IF t = <<>> THEN FALSE
    ELSE IF s = <<>> THEN TRUE
    ELSE IF Head(s) = Head(t) THEN str_less(Tail(s), Tail(t))
    ELSE ord(Head(s)) < ord(Head(t))

\* " ".join(sorted(S)) for a set S of str
RECURSIVE join_sorted(_)
join_sorted(S) ==
    IF S = {} THEN <<>>
    ELSE LET m    == CHOOSE x \in S : \A y \in S \ {x} : str_less(x, y)
             rest == join_sorted(S \ {m})
         IN  IF rest = <<>> THEN m ELSE m \o <<" ">> \o rest

\* one row of the longest-common-subsequence table of s and t: column k of
\* a row is kept at index k + 1
RECURSIVE lcs_row(_, _, _, _, _)
lcs_row(c, t, prev, j, cur) ==
    IF j > Len(t) THEN cur
    ELSE lcs_row(c, t, prev, j + 1,
                 Append(cur, IF c = t[j] THEN prev[j] + 1
                             ELSE IF prev[j + 1] >= cur[j] THEN prev[j + 1] ELSE cur[j]))

RECURSIVE lcs_rows(_, _, _)
lcs_rows(s, t, prev) ==
    IF s = <<>> THEN prev[Len(t) + 1]
    ELSE lcs_rows(Tail(s), t, lcs_row(Head(s), t, prev, 1, <<0>>))

\* rapidfuzz Indel distance: insertions and deletions only
indel_distance(s, t) ==
    Len(s) + Len(t) - 2 * lcs_rows(s, t, [k \in 1..(Len(t) + 1) |-> 0])

\* A similarity is the exact fraction 100 * n / d.
norm_distance(dist, lensum) ==
    IF lensum = 0 THEN [n |-> 1, d |-> 1] ELSE [n |-> lensum - dist, d |-> lensum]

frac_max(a, b) == IF a.n * b.d >= b.n * a.d THEN a ELSE b

\* rapidfuzz.fuzz.token_set_ratio(s1, s2) on lower-case letters and blanks
token_set_ratio(s1, s2) ==
    LET tokens_a == Range(split(s1))
        tokens_b == Range(split(s2))
        sect     == tokens_a \cap tokens_b
        diff_ab  == join_sorted(tokens_a \ tokens_b)
        diff_ba  == join_sorted(tokens_b \ tokens_a)
        sect_len == Len(join_sorted(sect))
        sep      == IF sect_len # 0 THEN 1 ELSE 0
        sect_ab_len == sect_len + sep + Len(diff_ab)
        sect_ba_len == sect_len + sep + Len(diff_ba)
        res      == norm_distance(indel_distance(diff_ab, diff_ba),
                                  sect_ab_len + sect_ba_len)
    IN  IF tokens_a = {} \/ tokens_b = {} THEN [n |-> 0, d |-> 1]
        ELSE IF sect # {} /\ (diff_ab = <<>> \/ diff_ba = <<>>) THEN [n |-> 1, d |-> 1]
        ELSE IF sect_len = 0 THEN res
        ELSE frac_max(res,
               frac_max(norm_distance(sep + Len(diff_ab), sect_len + sect_ab_len),
                        norm_distance(sep + Len(diff_ba), sect_len + sect_ba_len)))

\* token_set_ratio(...) >= threshold
ratio_ge(r, threshold) == 100 * r.n >= threshold * r.d

\* keyf / key: (family of the first author, else of the first editor, else "",
\* lower-cased; title.lower(); year or 0)
keyf(r) ==
    [fam |-> lower(IF r.authors # <<>> THEN r.authors[1]
                   ELSE IF r.editors # <<>> THEN r.editors[1] ELSE <<>>),
     t   |-> lower(r.title),
     y   |-> IF r.year = NoNum THEN 0 ELSE r.year]

\* faulty variant of is_dup: the years are not compared
is_dup_any_year(ri, rj, threshold) ==
    LET ki == keyf(ri)
        kj == keyf(rj)
    IN  IF ki.fam # <<>> /\ kj.fam # <<>> /\ ki.fam # kj.fam THEN FALSE
        ELSE ratio_ge(token_set_ratio(ki.t, kj.t), threshold)

\* the three tests of the inner loop: TRUE when record rj is marked used
\* while ri is the record being kept
is_dup(ri, rj, threshold) ==
    LET ki == keyf(ri)
        kj == keyf(rj)
        dy == IF ki.y >= kj.y THEN ki.y - kj.y ELSE kj.y - ki.y
    IN  IF ki.y # 0 /\ kj.y # 0 /\ dy > 1 THEN FALSE
        ELSE IF ki.fam # <<>> /\ kj.fam # <<>> /\ ki.fam # kj.fam THEN FALSE
        ELSE ratio_ge(token_set_ratio(ki.t, kj.t), threshold)

\* for j in range(i+1, len(records)): the used flags after the inner loop
mark_dups(records, used, i, threshold) ==
    [j \in DOMAIN records |->
        IF j > i /\ ~used[j] THEN is_dup(records[i], records[j], threshold)
        ELSE used[j]]

\* faulty variant of fuzzy_loop: the last record of a cluster is kept
RECURSIVE fuzzy_loop_keep_last(_, _, _, _, _)
fuzzy_loop_keep_last(records, used, i, out, threshold) ==
    IF i > Len(records) THEN out
    ELSE IF used[i] THEN fuzzy_loop_keep_last(records, used, i + 1, out, threshold)
    ELSE LET used2 == mark_dups(records, [used EXCEPT ![i] = TRUE], i, threshold)
             last  == Max({i} \cup {j \in DOMAIN records : used2[j] /\ ~used[j]})
         IN  fuzzy_loop_keep_last(records, used2, i + 1,
                                  Append(out, records[last]), threshold)

\* for i in range(len(records)): the fuzzy mode
RECURSIVE fuzzy_loop(_, _, _, _, _)
fuzzy_loop(records, used, i, out, threshold) ==
    IF i > Len(records) THEN out
    ELSE IF used[i] THEN fuzzy_loop(records, used, i + 1, out, threshold)
    ELSE fuzzy_loop(records,
                    mark_dups(records, [used EXCEPT ![i] = TRUE], i, threshold),
                    i + 1, Append(out, records[i]), threshold)

\* for r in records: the mode without rapidfuzz
RECURSIVE exact_loop(_, _, _)
exact_loop(records, seen, out) ==
    IF records = <<>> THEN out
    ELSE LET r == Head(records)
         IN  IF keyf(r) \in seen THEN exact_loop(Tail(records), seen, out)
             ELSE exact_loop(Tail(records), seen \cup {keyf(r)}, Append(out, r))

dedupe_records(records, threshold, mode) ==
    IF mode = "exact" THEN exact_loop(records, {}, <<>>)
    ELSE fuzzy_loop(records, [j \in DOMAIN records |-> FALSE], 1, <<>>, threshold)

\* ---------------------------------------------------------- SpecDedupe
MaxRecords == 3        \* records in one call of dedupe_records

Thresholds == {0, 80, 92, 100}

Ab == <<"A", "b">>
ab == <<"a", "b">>
Cd == <<"C", "d">>

ab_cd == <<"a", "b", " ", "c", "d">>
ab_ce == <<"a", "b", " ", "c", "e">>
AB_cd == <<"A", "B", " ", " ", "c", "d">>
AB_ef == <<"A", "B", " ", "e", "f">>

\* a NormalizedRef, as far as dedupe_records reads it; raw tells apart
\* records that agree in every field read
NormalizedRef(authors, editors, title, year, raw) ==
    [authors |-> authors, editors |-> editors, title |-> title,
     year |-> year, raw |-> raw]

RecordUniverse ==
    { NormalizedRef(<<Ab>>,     <<>>,   ab_cd, 2000,  "r1"),
      NormalizedRef(<<ab>>,     <<>>,   ab,    2001,  "r2"),
      NormalizedRef(<<>>,       <<Ab>>, AB_ef, 2002,  "r3"),
      NormalizedRef(<<>>,       <<>>,   ab_cd, NoNum, "r4"),
      NormalizedRef(<<Cd>>,     <<Ab>>, ab_cd, 2000,  "r5"),
      NormalizedRef(<<Ab>>,     <<>>,   ab_cd, 2000,  "r6"),
      NormalizedRef(<<Ab>>,     <<>>,   <<>>,  2000,  "r7"),
      NormalizedRef(<<Ab>>,     <<>>,   ab_ce, 2001,  "r8"),
      NormalizedRef(<<ab, Cd>>, <<>>,   AB_cd, NoNum, "r9"),
      NormalizedRef(<<Ab>>,     <<>>,   ab_cd, 2002,  "r10") }

InitDedupe ==
    /\ CascadeIdle
    /\ EvalIdle
    /\ ParseIdle
    /\ LaterIdle
    /\ dd_pc = "in"
    /\ dd_mode \in {"exact", "fuzzy"}
    /\ dd_thr \in Thresholds
    /\ dd_in \in SeqsOf(RecordUniverse, 0, MaxRecords)
    /\ dd_out = <<>>
    /\ dd_out2 = <<>>

\* out = dedupe_records(records, threshold)
DedupeOnce ==
    /\ dd_pc = "in"
    /\ dd_out' = dedupe_records(dd_in, dd_thr, dd_mode)
    /\ dd_pc' = "once"
    /\ UNCHANGED <<dd_mode, dd_thr, dd_in, dd_out2, outsideDedupe>>

\* dedupe_records(out, threshold)
DedupeTwice ==
    /\ dd_pc = "once"
    /\ dd_out2' = dedupe_records(dd_out, dd_thr, dd_mode)
    /\ dd_pc' = "twice"
    /\ UNCHANGED <<dd_mode, dd_thr, dd_in, dd_out, outsideDedupe>>

NextDedupe == DedupeOnce \/ DedupeTwice

SpecDedupe == InitDedupe /\ [][NextDedupe]_vars

\* ===================================================================
\* Strings and regular expressions  (str methods and module re, as
\* ref_parser.py and services/ref_extractor.py use them)
\* ===================================================================
\* Characters outside ASCII are written by name: "EN" en dash U+2013,
\* "EM" em dash U+2014, "LQ" and "RQ" the double quotation marks U+201C and
\* U+201D, "NBSP" no-break space U+00A0, "SHY" soft hyphen U+00AD; "DQ" is
\* the ASCII double quote.
PunctChars == {",", ".", ";", ":", "(", ")", "-", "/", "&", "DQ", "LQ", "RQ",
               "EN", "EM", "SHY"}
WordChars == UpperChars \cup LowerChars \cup DigitChars \cup {"_"}     \* \w
Chars     == WordChars \cup WsChars \cup PunctChars                     \* .

upper_char(c) ==
    IF c \in LowerChars
    THEN UpperSeq[CHOOSE i \in DOMAIN LowerSeq : LowerSeq[i] = c]
    ELSE c

\* a character class under re.I
AnyCase(cs) == cs \cup {lower_char(c) : c \in cs} \cup {upper_char(c) : c \in cs}

\* s[a:b] with 1-based a and exclusive b
Slice(s, a, b) == SubSeq(s, a, b - 1)

lstrip(s, cs) ==
    LET keep == {i \in DOMAIN s : s[i] \notin cs}
    IN  IF keep = {} THEN <<>> ELSE SubSeq(s, Min(keep), Len(s))

rstrip(s, cs) ==
    LET keep == {i \in DOMAIN s : s[i] \notin cs}
    IN  IF keep = {} THEN <<>> ELSE SubSeq(s, 1, Max(keep))

\* s.strip(cs); s.strip() is strip(s, WsChars)
strip(s, cs) == lstrip(rstrip(s, cs), cs)

\* s.startswith(sub, i - 1)
starts_at(s, sub, i) ==
    i + Len(sub) - 1 <= Len(s) /\ SubSeq(s, i, i + Len(sub) - 1) = sub

\* s.find(sub, i - 1) + 1; 0 when sub does not occur
find_from(s, sub, i) ==
    LET hits == {j \in i..(Len(s) - Len(sub) + 1) : starts_at(s, sub, j)}
    IN  IF hits = {} THEN 0 ELSE Min(hits)

\* s.split(sep, maxsplit); maxsplit = -1 for no limit
RECURSIVE split_on(_, _, _)
split_on(s, sep, maxsplit) ==
    LET at == IF maxsplit = 0 THEN 0 ELSE find_from(s, sep, 1)
    IN  IF at = 0 THEN <<s>>
        ELSE <<SubSeq(s, 1, at - 1)>>
             \o split_on(SubSeq(s, at + Len(sep), Len(s)), sep,
                         IF maxsplit > 0 THEN maxsplit - 1 ELSE maxsplit)

\* s.replace(old, new)
RECURSIVE str_replace(_, _, _)
str_replace(s, old, new) ==
    LET at == find_from(s, old, 1)
    IN  IF at = 0 THEN s
        ELSE SubSeq(s, 1, at - 1) \o new
             \o str_replace(SubSeq(s, at + Len(old), Len(s)), old, new)

\* " ".join(parts)
RECURSIVE join_sp(_)
join_sp(parts) ==
    IF parts = <<>> THEN <<>>
    ELSE IF Len(parts) = 1 THEN parts[1]
    ELSE parts[1] \o <<" ">> \o join_sp(Tail(parts))

\* int(digits)
RECURSIVE to_int(_)
to_int(ds) ==
    IF ds = <<>> THEN 0
    ELSE 10 * to_int(SubSeq(ds, 1, Len(ds) - 1))
         + (CHOOSE v \in 0..9 : <<"0", "1", "2", "3", "4", "5", "6", "7", "8", "9">>[v + 1]
                                   = ds[Len(ds)])

\* ---- patterns.  A pattern is a sequence of items:
\*   Cls(cs, lo, hi)   lo..hi characters of the class cs, greedy
\*   Lazy(cs, lo, hi)  the same, non-greedy
\*   Grp(cap, alts)    a group with the alternatives alts (patterns), which
\*                     is capture group cap (0: not capturing)
\*   Opt(cap, alts)    the same group followed by ?
\*   Bnd \b,  Eos $,  LookBehind(cs) (?<=[cs]),  LookAhead(cs) (?=[cs])
Cls(cs, lo, hi)  == [k |-> "cls", cs |-> cs, lo |-> lo, hi |-> hi, lazy |-> FALSE]
Lazy(cs, lo, hi) == [k |-> "cls", cs |-> cs, lo |-> lo, hi |-> hi, lazy |-> TRUE]
Ch(c)            == Cls({c}, 1, 1)
Grp(cap, alts)   == [k |-> "alt", cap |-> cap, alts |-> alts, opt |-> FALSE]
Opt(cap, alts)   == [k |-> "alt", cap |-> cap, alts |-> alts, opt |-> TRUE]
Bnd              == [k |-> "bnd"]
Eos              == [k |-> "eos"]
LookBehind(cs)   == [k |-> "lb", cs |-> cs]
LookAhead(cs)    == [k |-> "la", cs |-> cs]

\* a literal string; under re.I with AnyCase
Lit(str)  == [i \in DOMAIN str |-> Ch(str[i])]
LitI(str) == [i \in DOMAIN str |-> Cls(AnyCase({str[i]}), 1, 1)]

Many == 9999           \* no upper limit on a repetition
NoMatch == [ok |-> FALSE]
NoCaps  == [c \in 1..5 |-> <<0, 0>>]

\* number of characters of cs at s[i], s[i+1], ..., at most hi
run_len(cs, s, i, hi) ==
    LET stop == {j \in i..Len(s) : s[j] \notin cs} \cup {Len(s) + 1, i + hi}
    IN  Min(stop) - i

\* \b at position i (between s[i-1] and s[i])
is_bnd(s, i) ==
    (i > 1 /\ s[i - 1] \in WordChars) # (i <= Len(s) /\ s[i] \in WordChars)

\* the backtracking matcher: the first way, in the order of preference of
\* re, to match all of items from position i on
RECURSIVE re_m(_, _, _, _)
RECURSIVE re_rep(_, _, _, _, _, _, _)
RECURSIVE re_alts(_, _, _, _, _, _)
re_m(items, s, i, caps) ==
    IF items = <<>> THEN [ok |-> TRUE, end |-> i, caps |-> caps]
    ELSE LET it   == Head(items)
             rest == Tail(items)
         IN  CASE it.k = "cls" ->
                    re_rep(it, rest, s, i, it.lo, run_len(it.cs, s, i, it.hi), caps)
               [] it.k = "alt" -> re_alts(it, 1, rest, s, i, caps)
               [] it.k = "close" ->
                    re_m(rest, s, i, [caps EXCEPT ![it.cap] = <<it.start, i>>])
               [] it.k = "bnd" -> IF is_bnd(s, i) THEN re_m(rest, s, i, caps) ELSE NoMatch
               [] it.k = "eos" -> IF i = Len(s) + 1 THEN re_m(rest, s, i, caps) ELSE NoMatch
               [] it.k = "lb" ->
                    IF i > 1 /\ s[i - 1] \in it.cs THEN re_m(rest, s, i, caps) ELSE NoMatch
               [] it.k = "la" ->
                    IF i <= Len(s) /\ s[i] \in it.cs THEN re_m(rest, s, i, caps) ELSE NoMatch

\* the repetition counts lo..hi of the item it, tried in its order of
\* preference: the most first when greedy, the fewest first when lazy
re_rep(it, rest, s, i, lo, hi, caps) ==
    IF lo > hi THEN NoMatch
    ELSE IF lo = hi THEN re_m(rest, s, i + lo, caps)
    ELSE LET mid == (lo + hi) \div 2
             r   == IF it.lazy THEN re_rep(it, rest, s, i, lo, mid, caps)
                    ELSE re_rep(it, rest, s, i, mid + 1, hi, caps)
         IN  IF r.ok THEN r
             ELSE IF it.lazy THEN re_rep(it, rest, s, i, mid + 1, hi, caps)
             ELSE re_rep(it, rest, s, i, lo, mid, caps)

re_alts(it, a, rest, s, i, caps) ==
    IF a > Len(it.alts)
    THEN (IF it.opt THEN re_m(rest, s, i, caps) ELSE NoMatch)
    ELSE LET close == IF it.cap > 0
                      THEN <<[k |-> "close", cap |-> it.cap, start |-> i]>> ELSE <<>>
             r     == re_m(it.alts[a] \o close \o rest, s, i, caps)
         IN  IF r.ok THEN r ELSE re_alts(it, a + 1, rest, s, i, caps)

\* an assignment name = v followed by the code F that reads the name
Bind(v, F(_)) == F(v)

\* pattern.match(s)
re_match(p, s) == re_m(p, s, 1, NoCaps)

\* pattern.search(s, i - 1): the leftmost match
RECURSIVE re_search_in(_, _, _, _)
re_search_in(p, s, lo, hi) ==
    IF lo > hi THEN NoMatch
    ELSE IF lo = hi
    THEN Bind(re_m(p, s, lo, NoCaps), LAMBDA r :
              IF r.ok THEN [ok |-> TRUE, start |-> lo, end |-> r.end, caps |-> r.caps]
              ELSE NoMatch)
    ELSE LET mid == (lo + hi) \div 2
             r   == re_search_in(p, s, lo, mid)
         IN  IF r.ok THEN r ELSE re_search_in(p, s, mid + 1, hi)

re_search_from(p, s, i) == re_search_in(p, s, i, Len(s) + 1)

re_search(p, s) == re_search_from(p, s, 1)

\* m.group(c); <<>> also stands for a group that took no part
group(s, m, c) == Slice(s, m.caps[c][1], m.caps[c][2])

\* pattern.sub(repl, s) for a pattern without empty matches
RECURSIVE re_sub_from(_, _, _, _)
re_sub_from(p, repl, s, i) ==
    Bind(re_search_from(p, s, i), LAMBDA m :
        IF ~m.ok THEN SubSeq(s, i, Len(s))
        ELSE Slice(s, i, m.start) \o repl \o re_sub_from(p, repl, s, m.end))

re_sub(p, repl, s) == re_sub_from(p, repl, s, 1)

\* pattern.findall(s)[-1] for a pattern whose only group is group 1;
\* <<>> when there is no match
RECURSIVE re_find_last(_, _, _, _)
re_find_last(p, s, i, last) ==
    Bind(re_search_from(p, s, i), LAMBDA m :
        IF ~m.ok THEN last ELSE re_find_last(p, s, m.end, group(s, m, 1)))

\* ===================================================================
\* parse_reference  (ref_parser.py)
\* ===================================================================
NoStr == <<"None">>          \* None where a str is expected

D19(lo) == Cls({d \in DigitChars : to_int(<<d>>) >= lo}, 1, 1)
Digits(lo, hi) == Cls(DigitChars, lo, hi)
Ws(lo, hi) == Cls(WsChars, lo, hi)
DashWs == Cls({"-"} \cup WsChars, 0, 1)                 \* [-\s]?
Dashes == Cls({"-", "EN", "EM"}, 1, 1)                  \* [-EN EM]
PlaceChars == UpperChars \cup LowerChars \cup {".", "-", " "}

\* \d{1,5}\s*(?:[-EN EM]\s*\d{1,5})?
PageRange ==
    <<Digits(1, 5), Ws(0, Many), Opt(0, <<<<Dashes, Ws(0, Many), Digits(1, 5)>>>>)>>

RE_YEAR ==
    <<Bnd, Grp(1, << <<Ch("1"), D19(6), Digits(2, 2)>>,
                     <<Ch("2"), Ch("0"), Digits(2, 2)>>,
                     <<Ch("2"), Ch("1"), Digits(2, 2)>> >>), Bnd>>

RE_DOI ==
    <<Bnd, Ch("1"), Ch("0"), Ch("."), Digits(4, 9), Ch("/"),
      Cls(AnyCase(UpperChars) \cup DigitChars \cup {"-", ".", "_", ";", "(", ")", "/", ":"},
          1, Many), Bnd>>

IsbnTail ==
    <<Digits(1, 5), DashWs, Digits(1, 7), DashWs, Digits(1, 7), DashWs,
      Cls(DigitChars \cup {"X"}, 1, 1), Bnd>>

RE_ISBN ==
    <<Grp(0, << <<Bnd, Ch("9"), Ch("7"), Cls({"8", "9"}, 1, 1), DashWs>> \o IsbnTail,
                <<Bnd>> \o IsbnTail >>)>>

RE_URL ==
    LitI(<<"h", "t", "t", "p">>) \o <<Cls({"s", "S"}, 0, 1)>> \o Lit(<<":", "/", "/">>)
    \o <<Cls(Chars \ WsChars, 1, Many)>>

RE_IN ==
    <<Bnd, Grp(1, << LitI(<<"i", "n">>),
                     LitI(<<"i", "n">>) \o <<Ch(":")>>,
                     LitI(<<"d", "a", "n", "s">>),
                     LitI(<<"e", "n">>) \o <<Ch(":")>> >>), Bnd>>

\* the alternative with e-acute needs a character outside Chars
RE_ED ==
    <<Bnd, Grp(1, << LitI(<<"e", "d">>) \o <<Cls({"."}, 0, 1)>>,
                     LitI(<<"e", "d", "s">>) \o <<Cls({"."}, 0, 1)>>,
                     LitI(<<"h", "g">>) \o <<Ch(".")>>,
                     LitI(<<"h", "r", "s", "g">>) \o <<Ch(".")>>,
                     LitI(<<"h", "e", "r", "a", "u", "s", "g">>) \o <<Ch(".")>> >>), Bnd>>

RE_VOL_ISS ==
    <<Bnd, Grp(1, <<<<Digits(1, 4)>>>>), Ws(0, Many), Ch("("), Ws(0, Many),
      Grp(2, <<<<Digits(1, Many)>>>>), Ws(0, Many), Ch(")"), Bnd>>

RE_PAGES ==
    <<Bnd, Grp(1, << LitI(<<"p", "p">>) \o <<Cls({"."}, 0, 1)>>,
                     LitI(<<"s">>) \o <<Cls({"."}, 0, 1)>> >>),
      Ws(0, Many), Grp(2, <<PageRange>>), Bnd>>

RE_RANGE == <<Bnd, Grp(1, <<PageRange>>), Bnd>>

RE_PLACE_PUB_COLON ==
    <<Grp(1, <<<<Cls(UpperChars, 1, 1), Cls(PlaceChars, 2, 40)>>>>),
      Ws(0, Many), Ch(":"), Ws(0, Many),
      Grp(2, <<<<Cls(Chars \ {",", ";"}, 2, 100)>>>>)>>

RE_PUB_PLACE_COMMA ==
    <<Grp(1, <<<<Cls(Chars \ {",", ":", ";"}, 3, 100)>>>>),
      Ws(0, Many), Ch(","), Ws(0, Many),
      Grp(2, <<<<Cls(UpperChars, 1, 1), Cls(PlaceChars, 2, 40)>>>>), Eos>>

\* LQ([^RQ]{3,200})RQ
RE_QUOTED == <<Ch("LQ"), Grp(1, <<<<Cls(Chars \ {"RQ"}, 3, 200)>>>>), Ch("RQ")>>

\* [,.]\s*
RE_COMMA_DOT == <<Cls({",", "."}, 1, 1), Ws(0, Many)>>

\* [:,]\s*(\d{1,5}\s*(?:[-EN EM]\s*\d{1,5})?), the comma of the class being the
\* full-width comma U+FF0C, which is outside Chars
RE_PG == <<Ch(":"), Ws(0, Many), Grp(1, <<PageRange>>)>>

\* \s*(;|&| und | and | y )\s*   and   \s*,\s*und\s+|\s*,\s*and\s+   (re.I)
RE_SEP ==
    <<Ws(0, Many),
      Grp(1, << <<Ch(";")>>, <<Ch("&")>>,
                <<Ch(" ")>> \o LitI(<<"u", "n", "d">>) \o <<Ch(" ")>>,
                <<Ch(" ")>> \o LitI(<<"a", "n", "d">>) \o <<Ch(" ")>>,
                <<Ch(" ")>> \o LitI(<<"y">>) \o <<Ch(" ")>> >>),
      Ws(0, Many)>>

RE_SEP_COMMA ==
    <<Grp(0, << <<Ws(0, Many), Ch(","), Ws(0, Many)>> \o LitI(<<"u", "n", "d">>)
                   \o <<Ws(1, Many)>>,
                <<Ws(0, Many), Ch(","), Ws(0, Many)>> \o LitI(<<"a", "n", "d">>)
                   \o <<Ws(1, Many)>> >>)>>

NAME_PARTICLES ==
    { <<"v", "o", "n">>, <<"v", "a", "n">>, <<"d", "e", "r">>, <<"d", "e", "n">>,
      <<"d", "e">>, <<"d", "e", "l">>, <<"d", "a">>, <<"d", "i">>, <<"d", "u">>,
      <<"l", "a">>, <<"l", "e">>, <<"z", "u">>, <<"z", "u", "m">>, <<"z", "u", "r">>,
      <<"y">> }

\* unicodedata.normalize("NFC", s): every character of Chars is its own
\* canonical composition, and no two of them compose
nfc_char(c) == c
nfc(s) == [i \in DOMAIN s |-> nfc_char(s[i])]

\* fix_ws: [ \t\u00A0\u2000-\u200B]+ -> " ", \s{2,} -> " ", strip()
fix_ws(s) ==
    strip(re_sub(<<Ws(2, Many)>>, <<" ">>, re_sub(<<Ws(1, Many)>>, <<" ">>, s)), WsChars)

\* norm_dashes: "--" -> em dash, the two dashes onto themselves,
\* (?<=\d)\s*-\s*(?=\d) -> en dash
norm_dashes(s) ==
    re_sub(<<LookBehind(DigitChars), Ws(0, Many), Ch("-"), Ws(0, Many),
             LookAhead(DigitChars)>>,
           <<"EN">>,
           str_replace(str_replace(str_replace(s, <<"-", "-">>, <<"EM">>),
                                   <<"EN">>, <<"EN">>), <<"EM">>, <<"EM">>))

\* norm_quotes, for the quotation marks of Chars
norm_quotes(s) == str_replace(str_replace(s, <<"DQ">>, <<"LQ">>), <<"RQ">>, <<"RQ">>)

clean(s) == fix_ws(norm_quotes(norm_dashes(nfc(s))))

\* one chunk of split_people; parts[-1] of an empty list raises IndexError
person(c) ==
    IF "," \in Range(c)
    THEN LET lf == split_on(c, <<",">>, 1)
         IN  [exc |-> "", who |-> [family |-> strip(lf[1], WsChars),
                                   given  |-> strip(lf[2], WsChars)]]
    ELSE LET parts == split(c)
             n     == Len(parts)
         IN  IF n = 0 THEN [exc |-> "IndexError", who |-> <<>>]
             ELSE IF n = 1 THEN [exc |-> "", who |-> [family |-> parts[1], given |-> <<>>]]
             ELSE IF lower(parts[n - 1]) \in NAME_PARTICLES
                  THEN [exc |-> "",
                        who |-> [family |-> parts[n - 1] \o <<" ">> \o parts[n],
                                 given  |-> join_sp(SubSeq(parts, 1, n - 2))]]
                  ELSE [exc |-> "",
                        who |-> [family |-> parts[n],
                                 given  |-> join_sp(SubSeq(parts, 1, n - 1))]]

RECURSIVE people_of(_)
people_of(chunks) ==
    IF chunks = <<>> THEN [exc |-> "", people |-> <<>>]
    ELSE LET c    == strip(Head(chunks), {" ", ";", ","})
             rest == people_of(Tail(chunks))
         IN  IF c = <<>> THEN rest
             ELSE Bind(person(c), LAMBDA p :
                      IF p.exc # "" THEN [exc |-> p.exc, people |-> <<>>]
                      ELSE IF rest.exc # "" THEN rest
                      ELSE [exc |-> "", people |-> <<p.who>> \o rest.people])

split_people(text) ==
    people_of(split_on(re_sub(RE_SEP_COMMA, <<";">>, re_sub(RE_SEP, <<";">>, clean(text))),
                       <<";">>, -1))

\* the last year that RE_YEAR finds, NoNum for None
extract_year(s) ==
    Bind(re_find_last(RE_YEAR, s, 1, <<>>), LAMBDA y :
        IF y = <<>> THEN NoNum ELSE to_int(y))

strip_and_capture(pattern, s) ==
    Bind(re_search(pattern, s), LAMBDA m :
        IF ~m.ok THEN [value |-> NoStr, rest |-> s]
        ELSE [value |-> Slice(s, m.start, m.end),
              rest  |-> fix_ws(strip(Slice(s, 1, m.start), WsChars) \o <<" ">>
                               \o strip(SubSeq(s, m.end, Len(s)), WsChars))])

parse_place_publisher(s) ==
    Bind(re_search(RE_PLACE_PUB_COLON, s), LAMBDA mc :
        IF mc.ok THEN [place |-> strip(group(s, mc, 1), WsChars),
                       pub   |-> strip(group(s, mc, 2), WsChars)]
        ELSE Bind(re_search(RE_PUB_PLACE_COMMA, s), LAMBDA mp :
                 IF mp.ok THEN [place |-> strip(group(s, mp, 2), WsChars),
                                pub   |-> strip(group(s, mp, 1), WsChars)]
                 ELSE [place |-> NoStr, pub |-> NoStr]))

\* the title of extract_title_quoted (its second result is not used)
extract_title_quoted(s) ==
    Bind(re_search(RE_QUOTED, s), LAMBDA m :
        IF m.ok THEN strip(group(s, m, 1), WsChars) ELSE NoStr)

\* truth value of an Optional[str]
StrTruthy(x) == x # NoStr /\ x # <<>>

\* s[:e] for a 0-based index e that may be -1
py_prefix(s, e) == IF e >= 0 THEN SubSeq(s, 1, e) ELSE SubSeq(s, 1, Len(s) + e)

StripSet == {" ", ",", ";", "."}      \* .strip(" ,;.")

\* the "Container (in:)" block: container_title and pages
\* ... when neither RE_PAGES nor RE_RANGE matches after_in
container_plain(after_in, pp) ==
    IF StrTruthy(pp.place) \/ StrTruthy(pp.pub)
    THEN [container_title |->
              strip(py_prefix(after_in, find_from(after_in, <<":">>, 1) - 1), StripSet),
          pages |-> NoStr]
    ELSE [container_title |-> strip(after_in, StripSet), pages |-> NoStr]

\* ... m_pages being RE_PAGES.search(after_in) or RE_RANGE.search(after_in)
container_cut(after_in, m_pages) ==
    IF m_pages.ok
    THEN [container_title |-> strip(Slice(after_in, 1, m_pages.start), StripSet),
          pages           |-> group(after_in, m_pages, 1)]
    ELSE container_plain(after_in, parse_place_publisher(after_in))

pages_match(after_in) ==
    Bind(re_search(RE_PAGES, after_in), LAMBDA m :
        IF m.ok THEN m ELSE re_search(RE_RANGE, after_in))

container_of(s1) ==
    Bind(re_search(RE_IN, s1), LAMBDA m_in :
        IF ~m_in.ok THEN [container_title |-> NoStr, pages |-> NoStr]
        ELSE LET after_in == strip(SubSeq(s1, m_in.end, Len(s1)), WsChars)
             IN  container_cut(after_in, pages_match(after_in)))

\* the title when no quoted title was found: the segment after the first
\* em dash, else rest up to its first comma or full stop
plain_title(s1, lead) ==
    LET segs == split_on(s1, <<"EM">>, -1)
        rest == SubSeq(s1, Len(lead) + 1, Len(s1))
    IN  IF Len(segs) >= 2 THEN strip(segs[2], StripSet)
        ELSE Bind(re_search(RE_COMMA_DOT, rest), LAMBDA m :
                 IF m.ok THEN strip(Slice(rest, 1, m.start), WsChars)
                 ELSE strip(rest, WsChars))

\* the "Journal: Vol(Issue):Pages" block and the pages after pp. or S.
pages_after_colon(s1, pages0) ==
    Bind(re_search(RE_PG, s1), LAMBDA m_pg :
        IF m_pg.ok THEN group(s1, m_pg, 1) ELSE pages0)

pages_after_pp(s1, pages1) ==
    IF StrTruthy(pages1) THEN pages1
    ELSE Bind(re_search(RE_PAGES, s1), LAMBDA m_pg2 :
             IF m_pg2.ok THEN group(s1, m_pg2, 2) ELSE pages1)

journal_of(s1, pages0) ==
    Bind(re_search(RE_VOL_ISS, s1), LAMBDA m_vi :
        [volume |-> IF m_vi.ok THEN group(s1, m_vi, 1) ELSE NoStr,
         issue  |-> IF m_vi.ok THEN group(s1, m_vi, 2) ELSE NoStr,
         pages  |-> pages_after_pp(s1, IF m_vi.ok THEN pages_after_colon(s1, pages0)
                                       ELSE pages0)])

\* left and lead: the text before the quoted title, up to the first em
\* dash or " . "
left_of(s1, tmp_title) ==
    IF StrTruthy(tmp_title)
    THEN strip(Slice(s1, 1, find_from(s1, <<"LQ">>, 1)), WsChars) ELSE s1

lead_of(s1, tmp_title) ==
    strip(split_on(split_on(left_of(s1, tmp_title), <<"EM">>, -1)[1],
                   <<" ", ".", " ">>, -1)[1], StripSet)

\* lead_clean, and people = split_people(lead_clean) if lead_clean else []
people_in(lead) ==
    LET lead_clean == strip(re_sub(RE_ED, <<>>, lead), StripSet)
    IN  IF lead_clean # <<>> THEN split_people(lead_clean)
        ELSE [exc |-> "", people |-> <<>>]

\* the ParsedRef, without style_family and entry_type; exc names the
\* exception that leaves parse_reference ("" = none)
parsed_ref(ids, s1, exc, role_editors, people, title, cont, jrn, pp) ==
    [exc     |-> exc,
     authors |-> IF role_editors THEN <<>> ELSE people,
     editors |-> IF role_editors THEN people ELSE <<>>,
     title   |-> title,
     container_title |-> cont.container_title,
     publisher       |-> pp.pub,
     publisher_place |-> pp.place,
     year    |-> extract_year(s1),
     volume  |-> jrn.volume,
     issue   |-> jrn.issue,
     pages   |-> jrn.pages,
     doi     |-> ids.doi,
     isbn    |-> ids.isbn,
     url     |-> ids.url]

\* from "Container (in:)" on
with_container(ids, s1, exc, role_editors, people, title, cont) ==
    parsed_ref(ids, s1, exc, role_editors, people, title, cont,
               journal_of(s1, cont.pages), parse_place_publisher(s1))

\* the editor hint, the people and the title; s1.index(LQ) raises
\* ValueError when s1 holds no LQ
with_lead(ids, s1, tmp_title, lead, ppl) ==
    with_container(ids, s1,
                   IF StrTruthy(tmp_title) /\ find_from(s1, <<"LQ">>, 1) = 0
                   THEN "ValueError" ELSE ppl.exc,
                   re_search(RE_ED, lead).ok,
                   ppl.people,
                   IF StrTruthy(tmp_title) THEN tmp_title ELSE plain_title(s1, lead),
                   container_of(s1))

with_quoted(ids, s1, tmp_title, lead) ==
    with_lead(ids, s1, tmp_title, lead, people_in(lead))

\* from the quoted title on, s1 being the line without DOI, ISBN and URL
with_ids(ids, s1) ==
    with_quoted(ids, s1, extract_title_quoted(s1),
                lead_of(s1, extract_title_quoted(s1)))

\* parse_reference(raw) -> ParsedRef
parse_reference(raw) ==
    LET doi  == strip_and_capture(RE_DOI, clean(raw))
        isbn == strip_and_capture(RE_ISBN, doi.rest)
        url  == strip_and_capture(RE_URL, isbn.rest)
    IN  with_ids([doi |-> doi.value, isbn |-> isbn.value, url |-> url.value], url.rest)

\* ===================================================================
\* extract_references  (services/ref_extractor.py)
\* ===================================================================
AnyLazy == Lazy(Chars, 1, Many)                       \* .+?
NonDigitLazy == Lazy(Chars \ DigitChars, 1, Many)     \* [^0-9]+?

\* the groups of the templates, by name
G_authors   == 1
G_year      == 2
G_title     == 3
G_publisher == 4

Named(g, item) == Grp(g, << <<item>> >>)

\* (1[5-9]\d{2}|20\d{2})
YEAR_RE ==
    <<Grp(0, << <<Ch("1"), D19(5), Digits(2, 2)>>,
                <<Ch("2"), Ch("0"), Digits(2, 2)>> >>)>>

PatternNames == <<"apa", "harvard", "num", "author-title">>

\* _PATTERNS[name]; the patterns start with ^ and are used with match()
Patterns(name) ==
    CASE name = "apa" ->
           <<Named(G_authors, AnyLazy), Ws(1, Many), Ch("("),
             Named(G_year, Digits(4, 4)), Ch(")"), Ch("."), Ws(1, Many),
             Named(G_title, AnyLazy), Ch("."), Ws(1, Many),
             Named(G_publisher, AnyLazy), Ch(".")>>
      [] name = "harvard" ->
           <<Named(G_authors, AnyLazy), Ws(1, Many), Named(G_year, Digits(4, 4)),
             Ws(1, Many), Cls({"EN", "-", ":"}, 1, 1), Ws(1, Many),
             Named(G_title, AnyLazy), Ch("."), Ws(1, Many),
             Named(G_publisher, AnyLazy), Ch(".")>>
      [] name = "num" ->
           <<Ws(0, Many), Cls({"["}, 0, 1), Digits(1, Many), Cls({"]"}, 0, 1),
             Ws(1, Many), Named(G_authors, AnyLazy), Ch(","), Ws(1, Many),
             Cls({"'", "LQ", "DQ"}, 0, 1), Named(G_title, AnyLazy),
             Cls({"'", "RQ", "DQ"}, 0, 1), Ch(","), Ws(1, Many),
             Named(G_publisher, AnyLazy), Ch(","), Ws(1, Many),
             Named(G_year, Digits(4, 4))>>
      [] name = "author-title" ->
           <<Named(G_authors, AnyLazy), Ch(","), Ws(1, Many),
             Named(G_title, AnyLazy), Ch(","), Ws(0, Many),
             Named(G_publisher, NonDigitLazy), Ws(0, Many),
             Named(G_year, Digits(4, 4))>>

FALLBACK_RE ==
    <<Named(G_authors, AnyLazy), Ws(1, Many), Cls({"EN", "-"}, 0, 1), Ws(0, Many),
      Grp(G_year, <<YEAR_RE>>), Cls(LowerChars, 0, 1), Cls({".", ",", ":"}, 0, 1),
      Ws(1, Many), Named(G_title, AnyLazy),
      Opt(0, << <<Ch("."), Ws(1, Many), Named(G_publisher, NonDigitLazy)>> >>), Eos>>

\* unicodedata.normalize("NFKD", txt) on Chars: the no-break space
\* decomposes into a space, every other character into itself
nfkd_char(c) == IF c = "NBSP" THEN " " ELSE c
nfkd(s) == [i \in DOMAIN s |-> nfkd_char(s[i])]

\* _norm(txt); a group that took no part (None) arrives as <<>>
norm(txt) ==
    IF txt = <<>> THEN <<>>
    ELSE strip(re_sub(<<Ws(1, Many)>>, <<" ">>,
                      nfkd(str_replace(txt, <<"SHY">>, <<>>))), WsChars)

\* a record: Optional[Dict], the dict having the keys authors, year, title
\* and publisher
NoneRec == [is |-> "None", authors |-> <<>>, year |-> 0, title |-> <<>>,
            publisher |-> <<>>]
Rec(a, y, t, p) == [is |-> "dict", authors |-> a, year |-> y, title |-> t,
                    publisher |-> p]

\* the dict built from a match of a template or of _FALLBACK_RE
rec_of(raw, m) ==
    Rec(norm(group(raw, m, G_authors)), to_int(group(raw, m, G_year)),
        norm(group(raw, m, G_title)), norm(group(raw, m, G_publisher)))

\* tier b: the template of the detected style
style_parse(style, raw) ==
    IF style \in Range(PatternNames)
    THEN Bind(re_match(Patterns(style), raw), LAMBDA m :
              IF m.ok THEN rec_of(raw, m) ELSE NoneRec)
    ELSE NoneRec

\* tier c: _fallback_parse(line)
fallback_parse(line) ==
    Bind(re_match(FALLBACK_RE, line), LAMBDA m :
        IF m.ok THEN rec_of(line, m) ELSE NoneRec)

\* the merger without the test on the end of the buffer
RECURSIVE merge_loop_any_end(_, _, _)
merge_loop_any_end(lines, out, buf) ==
    LET flushed == IF buf # <<>> THEN Append(out, buf) ELSE out
    IN  IF lines = <<>> THEN flushed
        ELSE LET ln == rstrip(Head(lines), WsChars)
             IN  IF ln = <<>> THEN merge_loop_any_end(Tail(lines), flushed, <<>>)
                 ELSE IF buf # <<>> /\ ln[1] \in LowerChars
                 THEN merge_loop_any_end(Tail(lines), out, buf \o <<" ">> \o ln)
                 ELSE merge_loop_any_end(Tail(lines), flushed, ln)

\* _merge_lines(page_text), page_text.splitlines() being lines
RECURSIVE merge_loop(_, _, _)
merge_loop(lines, out, buf) ==
    LET flushed == IF buf # <<>> THEN Append(out, buf) ELSE out
    IN  IF lines = <<>> THEN flushed
        ELSE LET ln == rstrip(Head(lines), WsChars)
             IN  IF ln = <<>> THEN merge_loop(Tail(lines), flushed, <<>>)
                 ELSE IF /\ buf # <<>>
                         /\ buf[Len(buf)] \notin {".", ";", ":", ","}
                         /\ ln[1] \in LowerChars
                 THEN merge_loop(Tail(lines), out, buf \o <<" ">> \o ln)
                 ELSE merge_loop(Tail(lines), flushed, ln)

merge_lines(lines) == merge_loop(lines, <<>>, <<>>)

SampleMax == 12

\* sample_lines: the first 12 lines that are not blank
sample_lines(lines) ==
    LET keep == {i \in DOMAIN lines : strip(lines[i], WsChars) # <<>>}
        kth(k) == CHOOSE i \in keep : Cardinality({j \in keep : j < i}) = k - 1
    IN  [k \in 1..Min({SampleMax, Cardinality(keep)}) |-> lines[kth(k)]]

\* the template of the first sample line that any template matches
regex_style_by_line(lines) ==
    LET sample == sample_lines(lines)
        hit(k) == {n \in DOMAIN PatternNames : re_match(Patterns(PatternNames[n]), sample[k]).ok}
        hits   == {k \in DOMAIN sample : hit(k) # {}}
    IN  IF hits = {} THEN "unknown" ELSE PatternNames[Min(hit(Min(hits)))]

\* the first template that matches one of the sample lines
regex_style(lines) ==
    LET sample == sample_lines(lines)
        hit(n) == \E k \in DOMAIN sample : re_match(Patterns(PatternNames[n]), sample[k]).ok
        hits   == {n \in DOMAIN PatternNames : hit(n)}
    IN  IF hits = {} THEN "unknown" ELSE PatternNames[Min(hits)]

\* what _gpt_detect can return
GptStyles == Range(PatternNames) \cup {"unknown"}

\* the tiers consulted, in the order of their consultation
tiers_tried(first, second, third) ==
    (IF first THEN <<"custom">> ELSE <<>>) \o (IF second THEN <<"style">> ELSE <<>>)
    \o (IF third THEN <<"fallback">> ELSE <<>>)

\* tiers with the universal fallback consulted before the style template
parse_tiers_fallback_first(raw, has_parser, custom, style) ==
    Bind(IF has_parser THEN custom ELSE NoneRec, LAMBDA a :
    Bind(IF a = NoneRec THEN fallback_parse(raw) ELSE a, LAMBDA b :
    Bind(IF b = NoneRec THEN style_parse(style, raw) ELSE b, LAMBDA c :
        [rec   |-> c,
         tier  |-> IF a # NoneRec THEN "custom"
                   ELSE IF b # NoneRec THEN "fallback"
                   ELSE IF c # NoneRec THEN "style" ELSE "none",
         tried |-> (IF has_parser THEN <<"custom">> ELSE <<>>)
                   \o (IF a = NoneRec THEN <<"fallback">> ELSE <<>>)
                   \o (IF b = NoneRec /\ style \in Range(PatternNames)
                       THEN <<"style">> ELSE <<>>)])))

\* the tiers a, b, c of _parse_page for one merged line; custom is what the
\* caller's line_parser returns for it
parse_tiers(raw, has_parser, custom, style) ==
    Bind(IF has_parser THEN custom ELSE NoneRec, LAMBDA a :
    Bind(IF a = NoneRec THEN style_parse(style, raw) ELSE a, LAMBDA b :
    Bind(IF b = NoneRec THEN fallback_parse(raw) ELSE b, LAMBDA c :
        [rec   |-> c,
         tier  |-> IF a # NoneRec THEN "custom"
                   ELSE IF b # NoneRec THEN "style"
                   ELSE IF c # NoneRec THEN "fallback" ELSE "none",
         tried |-> tiers_tried(has_parser,
                               a = NoneRec /\ style \in Range(PatternNames),
                               b = NoneRec)])))

\* a filter that keeps every record there is
accept_any(rec) == rec.is = "dict"

\* step d: rec and rec["authors"] and rec["title"]
accept(rec) == rec.is = "dict" /\ rec.authors # <<>> /\ rec.title # <<>>

\* ---- one call of extract_references, one call of parse_reference
MaxPxLines == 2      \* physical lines of the page

\* the physical lines a page is made of
L_apa_blank == <<"A", " ", "(", "1", "9", "9", "9", ")", ".", " ", " ", " ", ".", " ", "P", ".">>
L_apa       == <<"A", "b", " ", "(", "1", "9", "9", "9", ")", ".", " ", "T", ".", " ", "P", ".">>
L_fb        == <<"A", "b", " ", "1", "9", "9", "9", " ", "T">>
L_fb_blank  == <<"B", " ", "1", "9", "9", "9", " ", "SHY">>
L_cont      == <<"x">>
L_dot       == <<".">>
PhysLines == {L_apa_blank, L_apa, L_fb, L_fb_blank, L_cont, L_dot, <<>>}

\* the lines parse_reference is called on
L_journal ==
    <<"S", "m", "i", "t", "h", ",", " ", "J", ".", ",", " ", "a", "n", "d", " ",
      "D", "o", "e", ",", " ", "A", ".", " ", "(", "2", "0", "2", "0", ")", ".", " ",
      "A", " ", "S", "t", "u", "d", "y", " ", "o", "f", " ", "T", "h", "i", "n", "g", "s",
      ".", " ", "J", "o", "u", "r", "n", "a", "l", " ", "o", "f", " ",
      "S", "t", "u", "d", "i", "e", "s", ",", " ", "1", "2", "(", "3", ")", ",", " ",
      "4", "5", "EN", "6", "7", ".">>
\* a prefix without digits, and identifiers: the DOI of a book chapter, a DOI
\* and a URL with two year-like numbers after hyphens
NoDigitPrefix ==
    <<"A", "b", ".", " ", "T", ".", " ">>
Id_doi_book ==
    <<"1", "0", ".", "1", "0", "0", "7", "/", "9", "7", "8", "-", "3", "-", "3", "1",
      "9", "-", "1", "2", "3", "4", "5", "-", "6">>
Id_doi_years ==
    <<"1", "0", ".", "1", "0", "0", "0", "/", "1", "-", "2", "0", "1", "9", "-", "2",
      "0", "2", "0">>
Id_url_years ==
    <<"h", "t", "t", "p", "s", ":", "/", "/", "x", ".", "o", "r", "g", "/", "2", "0",
      "1", "9", "-", "2", "0", "2", "0">>
Identifiers == {Id_doi_book, Id_doi_years, Id_url_years}
IdLines == {NoDigitPrefix \o id : id \in Identifiers}

\* lines without identifier, with the last year-like token they hold
L_one_year ==
    <<"A", "b", ".", " ", "T", ".", " ", "2", "0", "0", "5", ".">>
L_two_years ==
    <<"A", "b", ".", " ", "T", ".", " ", "1", "9", "9", "0", " ", "t", "h", "e", "n",
      " ", "2", "0", "0", "5", ".">>
YearLines == {[line |-> L_one_year, last |-> 2005], [line |-> L_two_years, last |-> 2005]}

\* lines with a volume(issue) that a letter follows: after a container with
\* a page range and before a colon with a page; before a comma with a page;
\* after a colon with a page
L_in_vi ==
    <<"A", ".", " ", "T", ".", " ", "i", "n", ":", " ", "J", " ", "5", "EN", "9", ",",
      " ", "1", "2", "(", "3", ")", "p", ":", " ", "7">>
L_vi_comma ==
    <<"A", ".", " ", "T", ".", " ", "J", " ", "1", "2", "(", "3", ")", "p", ",", " ", "7">>
L_colon_vi ==
    <<"A", ".", " ", "T", ":", " ", "5", ".", " ", "J", " ", "1", "2", "(", "3", ")", "p">>
VolIssLines == {L_in_vi, L_vi_comma, L_colon_vi}

ParseLines ==
    PhysLines \cup {L_journal} \cup IdLines \cup {y.line : y \in YearLines}
    \cup VolIssLines

\* what a caller's line_parser can return for a line: None, or a dict
\* with these keys
CustomResults ==
    {NoneRec, Rec(<<>>, 2000, <<"t">>, <<>>), Rec(<<"a">>, 2000, <<>>, <<>>),
     Rec(<<"a">>, 2000, <<"t">>, <<>>)}

InitParse ==
    /\ CascadeIdle
    /\ EvalIdle
    /\ DedupeIdle
    /\ LaterIdle
    /\ px_style = ""
    /\ px_todo = <<>>
    /\ px_out = <<>>
    /\ px_log = <<>>
    /\ px_parsed = <<>>
    /\ px_norm = <<>>
    /\ \/ /\ px_pc = "start"
          /\ px_txt \in SeqsOf(PhysLines, 0, MaxPxLines)
          /\ px_use_gpt \in BOOLEAN
          /\ px_line_parser \in BOOLEAN
          /\ px_line = <<>>
       \/ /\ px_pc = "call"
          /\ px_txt = <<>>
          /\ px_use_gpt = FALSE
          /\ px_line_parser = FALSE
          /\ px_line \in ParseLines

\* steps 1 and 2 of extract_references: the text of the page, the style
DetectStyle ==
    /\ px_pc = "start"
    /\ LET style == regex_style(px_txt)
       IN  IF px_use_gpt /\ style = "unknown"
           THEN px_style' \in GptStyles
           ELSE px_style' = style
    /\ px_todo' = merge_lines(px_txt)
    /\ px_pc' = "lines"
    /\ UNCHANGED <<px_txt, px_use_gpt, px_line_parser, px_out, px_log, px_line,
                   px_parsed, px_norm, outsideParse>>

\* one turn of the loop of _parse_page
ParseLine ==
    /\ px_pc = "lines"
    /\ px_todo # <<>>
    /\ \E custom \in (IF px_line_parser THEN CustomResults ELSE {NoneRec}) :
         Bind(parse_tiers(Head(px_todo), px_line_parser, custom, px_style), LAMBDA r :
             /\ px_log' = Append(px_log, [raw |-> Head(px_todo), tier |-> r.tier,
                                          rec |-> r.rec, kept |-> accept(r.rec),
                                          custom |-> custom, tried |-> r.tried])
             /\ px_out' = IF accept(r.rec) THEN Append(px_out, r.rec) ELSE px_out
             /\ px_todo' = Tail(px_todo))
    /\ UNCHANGED <<px_pc, px_txt, px_use_gpt, px_line_parser, px_style, px_line,
                   px_parsed, px_norm, outsideParse>>

\* extract_references returns refs
ReturnRefs ==
    /\ px_pc = "lines"
    /\ px_todo = <<>>
    /\ px_pc' = "done"
    /\ UNCHANGED <<px_txt, px_use_gpt, px_line_parser, px_style, px_todo, px_out, px_log,
                   px_line, px_parsed, px_norm, outsideParse>>

\* parse_reference called on the line the extractor saw last, by a caller
\* that, as main.py does, passes no line_parser
ParseLastLine ==
    /\ px_pc = "done"
    /\ ~px_line_parser
    /\ px_log # <<>>
    /\ px_line' = px_log[Len(px_log)].raw
    /\ px_parsed' = parse_reference(px_log[Len(px_log)].raw)
    /\ px_pc' = "returned"
    /\ UNCHANGED <<px_txt, px_use_gpt, px_line_parser, px_style, px_todo, px_out, px_log,
                   px_norm, outsideParse>>

\* parse_reference called on a line
ParseReference ==
    /\ px_pc = "call"
    /\ px_parsed' = parse_reference(px_line)
    /\ px_pc' = "returned"
    /\ UNCHANGED <<px_txt, px_use_gpt, px_line_parser, px_style, px_todo, px_out, px_log,
                   px_line, px_norm, outsideParse>>

\* str(n) of an int n >= 0
RECURSIVE py_str(_)
py_str(n) ==
    IF n < 10 THEN <<CHOOSE d \in DigitChars : to_int(<<d>>) = n>>
    ELSE py_str(n \div 10) \o py_str(n % 10)

\* sep.join(filter(None, parts))
RECURSIVE join_truthy(_, _)
join_truthy(sep, parts) ==
    IF parts = <<>> THEN <<>>
    ELSE IF Head(parts) = <<>> THEN join_truthy(sep, Tail(parts))
    ELSE IF join_truthy(sep, Tail(parts)) = <<>> THEN Head(parts)
    ELSE Head(parts) \o sep \o join_truthy(sep, Tail(parts))

\* step 1 of normalize_record: rec.get("raw") or rec.get("line"), else the
\* line put together from the fields of rec
raw_line_of(rec) ==
    IF "raw" \in DOMAIN rec /\ rec["raw"] # <<>> THEN rec["raw"]
    ELSE IF "line" \in DOMAIN rec /\ rec["line"] # <<>> THEN rec["line"]
    ELSE join_truthy(<<" ", "EM", " ">>,
                     <<rec.authors, <<"LQ">> \o rec.title \o <<"RQ">>, rec.publisher,
                       py_str(rec.year)>>)

\* the raw line, the ParsedRef, the year and the back-reference of the
\* NormalizedRef of rec, a dict of extract_references
normalized(rec, raw_line, parsed) ==
    [raw_line |-> raw_line,
     parsed   |-> parsed,
     year     |-> IF parsed.year # NoNum THEN parsed.year ELSE rec.year,
     raw      |-> rec]

normalize_record(rec) == normalized(rec, raw_line_of(rec), parse_reference(raw_line_of(rec)))

\* normalize_records(records): the NormalizedRefs up to the first record on
\* which parse_reference raises
RECURSIVE normalize_loop(_, _)
normalize_loop(records, out) ==
    IF records = <<>> THEN [exc |-> "", out |-> out]
    ELSE IF normalize_record(Head(records)).parsed.exc # ""
    THEN [exc |-> normalize_record(Head(records)).parsed.exc, out |-> out]
    ELSE normalize_loop(Tail(records), Append(out, normalize_record(Head(records))))

normalize_records(records) == normalize_loop(records, <<>>)

\* main.py: refs_norm = normalize_records(refs_raw), refs_raw being what
\* extract_references, called without line_parser, returned
Normalize ==
    /\ px_pc = "done"
    /\ ~px_line_parser
    /\ px_norm' = normalize_records(px_out)
    /\ px_pc' = "normalized"
    /\ UNCHANGED <<px_txt, px_use_gpt, px_line_parser, px_style, px_todo, px_out, px_log,
                   px_line, px_parsed, outsideParse>>

NextParse ==
    \/ DetectStyle \/ ParseLine \/ ReturnRefs \/ ParseLastLine \/ ParseReference
    \/ Normalize

SpecParse == InitParse /\ [][NextParse]_vars

\* ===================================================================
\* _clean_title  (ref_normalizer.py)
\* ===================================================================
STOPWORDS_TITLE ==
    {<<"a", "n", "d">>, <<"o", "f">>, <<"t", "h", "e">>, <<"i", "n">>, <<"u", "n", "d">>,
     <<"d", "e", "r">>, <<"d", "i", "e">>, <<"d", "a", "s">>, <<"i", "m">>,
     <<"d", "e", "n">>, <<"v", "o", "m">>, <<"z", "u", "m">>, <<"z", "u", "r">>,
     <<"e", "t">>, <<"d", "e">>, <<"d", "u">>, <<"d", "e", "s">>, <<"l", "a">>,
     <<"l", "e">>, <<"o", "u">>, <<"o", "r">>, <<"t", "o">>, <<"f", "o", "r">>,
     <<"f", "r", "o", "m">>, <<"b", "e", "i">>, <<"a", "m">>, <<"a", "n">>}

\* c.isalpha(), c.isupper() on Chars
isalpha(c) == c \in UpperChars \cup LowerChars
isupper(c) == c \in UpperChars

upper(s) == [i \in DOMAIN s |-> upper_char(s[i])]

\* str.capitalize()
capitalize(w) == IF w = <<>> THEN <<>> ELSE <<upper_char(w[1])>> \o lower(Tail(w))

\* _is_all_caps: uppercase letters / letters >= 0.85
is_all_caps(s) ==
    LET letters == {i \in DOMAIN s : isalpha(s[i])}
        uppers  == {i \in letters : isupper(s[i])}
    IN  letters # {} /\ 100 * Cardinality(uppers) >= 85 * Cardinality(letters)

\* [MDCLXVI]+ with fullmatch
RE_ROMAN_LETTERS == <<Cls({"M", "D", "C", "L", "X", "V", "I"}, 1, Many), Eos>>

\* the word of _smart_titlecase at 0-based position i, w being lowercased
titlecase_word(i, w) ==
    IF re_match(RE_ROMAN_LETTERS, upper(w)).ok THEN upper(w)
    ELSE IF i = 0 \/ w \notin STOPWORDS_TITLE THEN capitalize(w)
    ELSE w

smart_titlecase(s) ==
    LET ws == split(lower(s))
    IN  join_sp([k \in DOMAIN ws |-> titlecase_word(k - 1, ws[k])])

\* \s*;\s*  and  \s*\(\s*\)\s*$
RE_SEMICOLON == <<Ws(0, Many), Ch(";"), Ws(0, Many)>>
RE_EMPTY_PARENS == <<Ws(0, Many), Ch("("), Ws(0, Many), Ch(")"), Ws(0, Many), Eos>>

\* " ".join(t.split()), then the title case when _is_all_caps
recased(t) == IF is_all_caps(t) THEN smart_titlecase(t) ELSE t

clean_title(t) ==
    strip(re_sub(RE_EMPTY_PARENS, <<>>,
                 re_sub(RE_SEMICOLON, <<":", " ">>, recased(join_sp(split(t))))),
          StripSet)

\* ---- one call of _clean_title
MaxTitleWords == 3

TitleWords ==
    {<<"T", "H", "E">>, <<"O", "F">>, <<"I", "M">>, <<"X", "I", "V">>,
     <<"C", "I", "V", "I", "L">>, <<"W", "O", "R", "L", "D">>,
     <<"w", "o", "r", "l", "d">>}

\* the titles of the documentation
T_history ==
    <<"T", "H", "E", " ", "H", "I", "S", "T", "O", "R", "Y", " ", "O", "F", " ",
      "T", "H", "E", " ", "W", "O", "R", "L", "D">>
T_chapter ==
    <<"C", "H", "A", "P", "T", "E", "R", " ", "X", "I", "V", " ",
      "O", "V", "E", "R", "V", "I", "E", "W">>

Titles ==
    {join_sp(ws) : ws \in SeqsOf(TitleWords, 1, MaxTitleWords)} \cup {T_history, T_chapter}

InitTitle ==
    /\ CascadeIdle
    /\ EvalIdle
    /\ DedupeIdle
    /\ ParseIdle
    /\ TermsIdle
    /\ HeadingIdle
    /\ OracleIdle
    /\ NewIdle
    /\ tc_pc = "in"
    /\ tc_title \in Titles
    /\ tc_out = <<>>

CleanTitle ==
    /\ tc_pc = "in"
    /\ tc_out' = clean_title(tc_title)
    /\ tc_pc' = "done"
    /\ UNCHANGED <<tc_title, outsideTitle>>

NextTitle == CleanTitle

SpecTitle == InitTitle /\ [][NextTitle]_vars

\* ===================================================================
\* the term catalog  (services/delb/keyword_hits.py, find_bibliography.py)
\* ===================================================================
\* bibliography_terms.csv does not exist
NoFile == [exists |-> FALSE, rows |-> <<>>]

TermKey == <<"t", "e", "r", "m">>          \* the column name "term"

\* csv.DictReader: row.get("term") of a data row under the header; None
\* (here NoStr) when the column is missing or the row is too short
dict_term(header, row) ==
    LET idx == {i \in DOMAIN header : header[i] = TermKey}
    IN  IF idx = {} \/ Max(idx) > Len(row) THEN NoStr ELSE row[Max(idx)]

\* keyword_hits.TERMS, as the set of its elements
TERMS(rows) ==
    IF rows = <<>> THEN {}
    ELSE {strip(dict_term(rows[1], rows[i]), WsChars) :
            i \in {j \in 2..Len(rows) : StrTruthy(dict_term(rows[1], rows[j]))}}

\* find_bibliography.BIB_TERMS when the file exists
BIB_TERMS(rows) ==
    {lower(strip(rows[i][j], WsChars)) :
        <<i, j>> \in {ij \in (DOMAIN rows) \X (1..2) :
                        /\ ij[2] \in DOMAIN rows[ij[1]]
                        /\ strip(rows[ij[1]][ij[2]], WsChars) # <<>>}}

\* the "Development-Fallback" of find_bibliography
FALLBACK_TERMS ==
    {<<"r", "e", "f", "e", "r", "e", "n", "c", "e", "s">>,
     <<"b", "i", "b", "l", "i", "o", "g", "r", "a", "p", "h", "y">>,
     <<"l", "i", "t", "e", "r", "a", "t", "u", "r">>,
     <<"l", "i", "t", "e", "r", "a", "t", "u", "r", "v", "e", "r", "z", "e", "i", "c", "h", "n", "i", "s">>,
     <<"w", "o", "r", "k", "s", " ", "c", "i", "t", "e", "d">>,
     <<"l", "i", "t", "e", "r", "a", "t", "u", "r", "e", " ", "c", "i", "t", "e", "d">>,
     <<"q", "u", "e", "l", "l", "e", "n">>}

\* _TERM_RE.search(txt): \b(t1|t2|...)\b under re.I
term_re_found(terms, txt) ==
    \E w \in terms : re_search(<<Bnd>> \o LitI(w) \o <<Bnd>>, txt).ok

\* _RE_TERMS.search(hdr): t1|t2|... under re.I; the pattern of an empty
\* set is the empty pattern, found in every text
re_terms_found(terms, hdr) ==
    terms = {} \/ \E w \in terms : re_search(LitI(w), hdr).ok

\* ---- the import of one module, then its first term test
MaxCsvRows == 2

CsvCells == {<<>>, <<" ">>, TermKey, <<"Q", "u", "e", "l", "l", "e", "n", " ">>}
CsvRows  == SeqsOf(CsvCells, 1, 2)
Catalogs ==
    {NoFile} \cup {[exists |-> TRUE, rows |-> r] : r \in SeqsOf(CsvRows, 0, MaxCsvRows)}

TermTexts ==
    {<<>>, <<"Q", "U", "E", "L", "L", "E", "N">>, <<"x", " ", "y">>,
     <<"R", "e", "f", "e", "r", "e", "n", "c", "e", "s">>}

InitTerms ==
    /\ CascadeIdle
    /\ EvalIdle
    /\ DedupeIdle
    /\ ParseIdle
    /\ TitleIdle
    /\ HeadingIdle
    /\ OracleIdle
    /\ NewIdle
    /\ tm_pc = "import"
    /\ tm_module \in {"keyword_hits", "find_bibliography"}
    /\ tm_csv \in Catalogs
    /\ tm_terms = {}
    /\ tm_text = <<>>
    /\ tm_hit = FALSE

\* import services.delb.keyword_hits: sys.exit without file, without terms
ImportKeywordHits ==
    /\ tm_pc = "import"
    /\ tm_module = "keyword_hits"
    /\ IF tm_csv = NoFile THEN tm_pc' = "exited" /\ tm_terms' = {}
       ELSE IF TERMS(tm_csv.rows) = {} THEN tm_pc' = "exited" /\ tm_terms' = {}
       ELSE tm_pc' = "ready" /\ tm_terms' = TERMS(tm_csv.rows)
    /\ UNCHANGED <<tm_module, tm_csv, tm_text, tm_hit, outsideTerms>>

\* import services.delb.find_bibliography
ImportFindBibliography ==
    /\ tm_pc = "import"
    /\ tm_module = "find_bibliography"
    /\ tm_terms' = IF tm_csv.exists THEN BIB_TERMS(tm_csv.rows) ELSE FALLBACK_TERMS
    /\ tm_pc' = "ready"
    /\ UNCHANGED <<tm_module, tm_csv, tm_text, tm_hit, outsideTerms>>

\* check_page of keyword_hits, the header test of _score_page
TermTest ==
    /\ tm_pc = "ready"
    /\ \E txt \in TermTexts :
         /\ tm_text' = txt
         /\ tm_hit' = IF tm_module = "keyword_hits" THEN term_re_found(tm_terms, txt)
                      ELSE re_terms_found(tm_terms, txt)
    /\ tm_pc' = "detected"
    /\ UNCHANGED <<tm_module, tm_csv, tm_terms, outsideTerms>>

NextTerms == ImportKeywordHits \/ ImportFindBibliography \/ TermTest

SpecTerms == InitTerms /\ [][NextTerms]_vars

\* ===================================================================
\* Stage 2 of detect_bibliography on a given font cache  (SpecHeading)
\* ===================================================================
MaxFontPages == 3      \* pages of the document and of its font cache

\* the spans of one page: none, or one of
SpanKinds ==
    { [txt |-> H_refs,      font |-> F_head],
      [txt |-> H_refs,      font |-> F_foot],
      [txt |-> H_refs_year, font |-> F_head],
      [txt |-> H_intro,     font |-> F_head] }

\* font caches in the layout analyse_file reads: pages with "n", "heading"
\* and "spans"
AnalyseCaches(n) ==
    {[font_ranking |-> FontRanking,
      pages        |-> [i \in 1..n |-> [n |-> i, heading |-> hd, spans |-> sp[i]]]] :
        sp \in [1..n -> SeqsOf(SpanKinds, 0, 1)], hd \in {<<>>, <<F_foot>>}}

\* what json_path can hold when _chap_analyse reads it: the file that
\* _font_write has just written, or a file in the layout of analyse_file
HeadingCaches(n) ==
    {font_scan(n, anyText) : anyText \in BOOLEAN} \cup AnalyseCaches(n)

NoOut == [kind |-> "", exc |-> "", val |-> None]

InitHeading ==
    /\ CascadeIdle
    /\ EvalIdle
    /\ DedupeIdle
    /\ ParseIdle
    /\ TitleIdle
    /\ TermsIdle
    /\ OracleIdle
    /\ NewIdle
    /\ hd_pc = "cache"
    /\ hd_cache \in HeadingCaches(MaxFontPages)
    /\ hd_barrier \in 0..(MaxFontPages - 1)
    /\ hd_chaps = <<>>
    /\ hd_doc = <<>>
    /\ hd_out = NoOut

\* _, chaps, _ = _chap_analyse(str(json_path), trace=False)
HdAnalyse ==
    /\ hd_pc = "cache"
    /\ hd_chaps' = analyse_file(hd_cache)
    /\ hd_pc' = "analysed"
    /\ UNCHANGED <<hd_cache, hd_barrier, hd_doc, hd_out, outsideHeading>>

\* "if chaps: bib_hdrs = ...; if bib_hdrs: ..." up to the return
HdBlock ==
    /\ hd_pc = "analysed"
    /\ LET hdrs == bib_hdrs(hd_chaps, hd_barrier)
       IN  IF hd_chaps.ok /\ hdrs # <<>>
           THEN \E doc \in Docs(Len(hd_cache.pages)) :
                  LET res == heading_result(hdrs, detect_block(doc, 0, 0, BoostPct, NoGpt))
                  IN  /\ hd_doc' = doc
                      /\ hd_out' = [kind |-> IF res.exc # "" THEN "raise" ELSE "return",
                                    exc  |-> res.exc,
                                    val  |-> res.val]
           ELSE /\ hd_doc' = <<>>
                /\ hd_out' = [kind |-> "fall", exc |-> "", val |-> None]
    /\ hd_pc' = "done"
    /\ UNCHANGED <<hd_cache, hd_barrier, hd_chaps, outsideHeading>>

NextHeading == HdAnalyse \/ HdBlock

SpecHeading == InitHeading /\ [][NextHeading]_vars

\* ===================================================================
\* refine(): the oracle requests of one call of _evaluate  (SpecOracle)
\* ===================================================================
\* The event loop of asyncio.run runs one task at a time, up to its next
\* await.  The state of the task of a page:
\*   "new"        created by asyncio.create_task, not run yet
\*   "waiting"    blocked in sem.acquire()
\*   "woken"      handed the semaphore by a release, not resumed yet
\*   "inflight"   awaiting openai.ChatCompletion.acreate
\*   "answered"   _gpt_flag returned
\*   "slept"      asyncio.sleep(0) returned
\*   "raised"     the request raised
\*   "cancelled"  cancelled when asyncio.run shut the loop down
MaxOraclePages == 6      \* pages handed to _evaluate

SEM_CAP == 5             \* asyncio.Semaphore(5)

\* the scores of the pages: some pages below 0.75, the others at one score
\* that is not below
OracleScoreLists ==
    {[i \in 1..n |-> IF i <= k THEN 135 * LinesPerPage ELSE hi] :
        n \in 1..MaxOraclePages, k \in 0..MaxOraclePages, hi \in {(3 * ScoreDen) \div 4, ScoreDen}}

InitOracle ==
    /\ CascadeIdle
    /\ EvalIdle
    /\ DedupeIdle
    /\ ParseIdle
    /\ TitleIdle
    /\ TermsIdle
    /\ HeadingIdle
    /\ NewIdle
    /\ or_pc = "loop"
    /\ or_forced \in BOOLEAN
    /\ or_scores \in OracleScoreLists
    /\ or_oracle \in {"B", "N"}
    /\ or_task = <<>>
    /\ or_sem = SEM_CAP
    /\ or_waiters = <<>>
    /\ or_out = <<>>

\* the loop of refine() that creates one task per page, up to "await gather"
OrCreate ==
    /\ or_pc = "loop"
    /\ or_task' = [i \in DOMAIN or_scores |-> "new"]
    /\ or_pc' = "gather"
    /\ UNCHANGED <<or_forced, or_scores, or_oracle, or_sem, or_waiters, or_out,
                   outsideOracle>>

\* the page's task is a request (_gpt_flag), not asyncio.sleep(0)
is_request(i) == i \in gpt_asked(or_scores, or_forced)

FirstNew == Min({i \in DOMAIN or_task : or_task[i] = "new"})

\* the first step of the next task, in the order of creation.  A request:
\* "async with sem", then the request is sent; sem.acquire() blocks when
\* the semaphore is locked.
OrStart ==
    /\ or_pc = "gather"
    /\ \E i \in DOMAIN or_task : or_task[i] = "new"
    /\ LET i == FirstNew
       IN  IF ~is_request(i)
           THEN /\ or_task' = [or_task EXCEPT ![i] = "slept"]
                /\ UNCHANGED <<or_sem, or_waiters>>
           ELSE IF or_sem > 0 /\ or_waiters = <<>>
                THEN /\ or_task' = [or_task EXCEPT ![i] = "inflight"]
                     /\ or_sem' = or_sem - 1
                     /\ UNCHANGED or_waiters
                ELSE /\ or_task' = [or_task EXCEPT ![i] = "waiting"]
                     /\ or_waiters' = Append(or_waiters, i)
                     /\ UNCHANGED or_sem
    /\ UNCHANGED <<or_pc, or_forced, or_scores, or_oracle, or_out, outsideOracle>>

\* every task has run its first step: responses are seen by the event loop
\* only after the tasks that are ready have run
AllStarted == \A j \in DOMAIN or_task : or_task[j] # "new"

\* sem.release() at the end of "async with sem": the first waiter, if any,
\* is handed the semaphore; tasks is or_task after the step of the releaser
release(tasks) ==
    IF or_waiters = <<>>
    THEN /\ or_sem' = or_sem + 1
         /\ or_task' = tasks
         /\ or_waiters' = or_waiters
    ELSE /\ or_sem' = or_sem
         /\ or_task' = [tasks EXCEPT ![Head(or_waiters)] = "woken"]
         /\ or_waiters' = Tail(or_waiters)

\* the oracle answers the request of page i; _gpt_flag returns
OrAnswer(i) ==
    /\ or_pc = "gather"
    /\ AllStarted
    /\ or_task[i] = "inflight"
    /\ release([or_task EXCEPT ![i] = "answered"])
    /\ UNCHANGED <<or_pc, or_forced, or_scores, or_oracle, or_out, outsideOracle>>

\* a woken task resumes and sends its request
OrSend(i) ==
    /\ or_pc = "gather"
    /\ or_task[i] = "woken"
    /\ or_task' = [or_task EXCEPT ![i] = "inflight"]
    /\ UNCHANGED <<or_pc, or_forced, or_scores, or_oracle, or_sem, or_waiters, or_out,
                   outsideOracle>>

Finished == {"answered", "slept", "raised", "cancelled"}

\* the request of page i raises: gather passes the exception on to refine(),
\* asyncio.run cancels the tasks that are left, "except Exception" logs
\* GPT-skip; no score is changed
OrFail(i) ==
    /\ or_pc = "gather"
    /\ AllStarted
    /\ or_task[i] = "inflight"
    /\ or_task' = [j \in DOMAIN or_task |->
                      IF j = i THEN "raised"
                      ELSE IF or_task[j] \in Finished THEN or_task[j]
                      ELSE "cancelled"]
    /\ or_waiters' = <<>>
    /\ or_out' = or_scores
    /\ or_pc' = "skipped"
    /\ UNCHANGED <<or_forced, or_scores, or_oracle, or_sem, outsideOracle>>

\* gather returns: "for i, ok in enumerate(...): if ok: scores[i] = 1.0"
OrGather ==
    /\ or_pc = "gather"
    /\ \A j \in DOMAIN or_task : or_task[j] \in {"answered", "slept"}
    /\ or_out' = [j \in DOMAIN or_scores |->
                     IF or_task[j] = "answered" /\ or_oracle = "B"
                     THEN ScoreDen ELSE or_scores[j]]
    /\ or_pc' = "done"
    /\ UNCHANGED <<or_forced, or_scores, or_oracle, or_task, or_sem, or_waiters,
                   outsideOracle>>

\* the steps of the program's own tasks
OrProgram == OrCreate \/ OrStart \/ (\E i \in DOMAIN or_task : OrSend(i)) \/ OrGather

\* the steps that wait for the oracle
OrOracle == \E i \in DOMAIN or_task : OrAnswer(i) \/ OrFail(i)

NextOracle == OrProgram \/ OrOracle

SpecOracle == InitOracle /\ [][NextOracle]_vars

\* the event loop runs every task that is ready; nothing makes the oracle
\* answer
SpecOracleLive == SpecOracle /\ WF_vars(OrProgram)

\* ===================================================================
\* extract_references on the pages of a document: the style of the
\* document, the oracle with its cache, the pool of worker threads
\* (services/ref_extractor.py)
\* ===================================================================
MAX_WORKERS == 4
CACHE_TTL == 12 * 60 * 60

\* the keys of _PATTERNS as the oracle spells them
Spelling(name) ==
    CASE name = "apa"          -> <<"a", "p", "a">>
      [] name = "harvard"      -> <<"h", "a", "r", "v", "a", "r", "d">>
      [] name = "num"          -> <<"n", "u", "m">>
      [] name = "author-title" -> <<"a", "u", "t", "h", "o", "r", "-", "t", "i", "t",
                                    "l", "e">>

\* what the request of _gpt_detect ends with: an exception (the timeout
\* among them) or a response with this content
ReplyExc == [exc |-> TRUE, content |-> <<>>]
Reply(content) == [exc |-> FALSE, content |-> content]

\* sty of _gpt_detect after the request: content.strip().lower() if it is a
\* key of _PATTERNS, else "unknown"
label_of(reply) ==
    IF reply.exc THEN "unknown"
    ELSE LET word  == lower(strip(reply.content, WsChars))
             names == {n \in Range(PatternNames) : Spelling(n) = word}
         IN  IF names = {} THEN "unknown" ELSE CHOOSE n \in names : TRUE

\* _sample_hash(sample): the first 12 hex digits of the SHA-1, taken to be
\* different for the different samples of the model
sample_hash(sample) == [sha1 |-> sample]

\* _STYLE_CACHE is a set of entries [key, sty, t], one per key at most
cache_get(cache, key) == {c \in cache : c.key = key}

\* (hit := _STYLE_CACHE.get(key)) and now - hit[1] < _CACHE_TTL
cache_fresh(cache, key, now) == {c \in cache_get(cache, key) : now - c.t < CACHE_TTL}

\* the store left out
cache_put_nothing(cache, key, sty, now) == cache

\* _STYLE_CACHE[key] = (sty, now)
cache_put(cache, key, sty, now) ==
    (cache \ cache_get(cache, key)) \cup {[key |-> key, sty |-> sty, t |-> now]}

\* _gpt_detect(sample) when the request, if one is sent, ends with reply
gpt_detect(cache, has_key, sample, now, reply) ==
    IF ~has_key
    THEN [sty |-> "unknown", asked |-> FALSE, cache |-> cache]
    ELSE IF cache_fresh(cache, sample_hash(sample), now) # {}
    THEN [sty   |-> (CHOOSE c \in cache_fresh(cache, sample_hash(sample), now) : TRUE).sty,
          asked |-> FALSE, cache |-> cache]
    ELSE [sty   |-> label_of(reply), asked |-> TRUE,
          cache |-> cache_put(cache, sample_hash(sample), label_of(reply), now)]

\* [ln for t in page_txt for ln in t.splitlines()]
RECURSIVE all_lines(_)
all_lines(pages) ==
    IF pages = <<>> THEN <<>> ELSE Head(pages) \o all_lines(Tail(pages))

\* the line_parser of the caller of the model: it knows the lines that
\* begin with a digit
line_parser(raw) ==
    IF raw # <<>> /\ raw[1] \in DigitChars
    THEN Rec(<<"C">>, 2000, <<"c">>, <<>>)
    ELSE NoneRec

\* _parse_page(txt): the records of the merged lines that step d accepts
RECURSIVE parse_raws(_, _, _)
parse_raws(raws, style, has_parser) ==
    IF raws = <<>> THEN <<>>
    ELSE (IF accept(parse_tiers(Head(raws), has_parser, line_parser(Head(raws)), style).rec)
          THEN <<parse_tiers(Head(raws), has_parser, line_parser(Head(raws)), style).rec>>
          ELSE <<>>)
         \o parse_raws(Tail(raws), style, has_parser)

parse_page(txt, style, has_parser) == parse_raws(merge_lines(txt), style, has_parser)

\* ---- one call of extract_references
MaxPoolPages == 2

L_num == <<"1", " ", "A", ",", " ", "T", ",", " ", "P", ",", " ", "1", "9", "9", "9">>

\* the pages of a document: eleven lines that are a full stop, two
\* references of which the first has a soft line break, a numbered reference
P_dots == [i \in 1..11 |-> L_dot]
P_apa  == <<L_fb, L_cont, <<>>, L_apa>>
P_num  == <<L_num>>
PoolPages == {P_dots, P_apa, P_num}

OracleReplies ==
    {ReplyExc, Reply(<<"a", "p", "a">>), Reply(<<" ", "N", "u", "m", " ">>),
     Reply(<<"m", "l", "a">>), Reply(<<"u", "n", "k", "n", "o", "w", "n">>)}

\* time.time() when the call begins, and the caches it can find: none, an
\* entry as old as _CACHE_TTL, an entry one second younger
PoolNow == CACHE_TTL + 5
PoolCaches(sample) ==
    {{}, {[key |-> sample_hash(sample), sty |-> "harvard", t |-> 5]},
         {[key |-> sample_hash(sample), sty |-> "harvard", t |-> 6]}}

\* the options of the call and whether openai has an API key: use_gpt
\* off, with and without line_parser; use_gpt on without a key, with
\* line_parser; use_gpt on with a key
PoolConfigs ==
    {c \in [use_gpt : BOOLEAN, has_key : BOOLEAN, line_parser : BOOLEAN] :
        /\ ~c.use_gpt => c.has_key
        /\ c.use_gpt => (c.has_key <=> ~c.line_parser)}

NotCalled == [called |-> FALSE, asked |-> FALSE, reply |-> ReplyExc, cache |-> {}]

InitPool ==
    /\ OldIdle
    /\ CacheIdle
    /\ SignalsIdle
    /\ tp_pc = "start"
    /\ tp_pages \in SeqsOf(PoolPages, 0, MaxPoolPages)
    /\ tp_cfg \in PoolConfigs
    /\ tp_cache \in (IF tp_cfg.use_gpt /\ tp_cfg.has_key
                    THEN PoolCaches(sample_lines(all_lines(tp_pages)))
                    ELSE {{}})
    /\ tp_style = ""
    /\ tp_oracle = NotCalled
    /\ tp_queue = <<>>
    /\ tp_work = [w \in 1..MAX_WORKERS |-> 0]
    /\ tp_fut = <<>>
    /\ tp_next = 1
    /\ tp_refs = <<>>

\* the futures of tp.map, all submitted before the first result is asked for
\* (nth: the how manieth of the futures to be done it was)
Futures(n) ==
    [i \in 1..n |-> [done |-> FALSE, taken |-> FALSE, val |-> <<>>, nth |-> 0]]

\* step 2 when no template matched and use_gpt is set:
\* loop.run_until_complete(_gpt_detect(sample))
TpAsk(sample) ==
    \E reply \in OracleReplies :
        Bind(gpt_detect(tp_cache, tp_cfg.has_key, sample, PoolNow, reply), LAMBDA r :
            /\ tp_style' = r.sty
            /\ tp_oracle' = [called |-> TRUE, asked |-> r.asked,
                             reply |-> IF r.asked THEN reply ELSE ReplyExc,
                             cache |-> r.cache])

TpStyle(style, sample) ==
    IF tp_cfg.use_gpt /\ style = "unknown"
    THEN TpAsk(sample)
    ELSE /\ tp_style' = style
         /\ tp_oracle' = [NotCalled EXCEPT !.cache = tp_cache]

\* steps 1 and 2 of extract_references and the calls of submit of tp.map
TpDetect ==
    /\ tp_pc = "start"
    /\ TpStyle(regex_style(all_lines(tp_pages)), sample_lines(all_lines(tp_pages)))
    /\ tp_queue' = [i \in 1..Len(tp_pages) |-> i]
    /\ tp_fut' = Futures(Len(tp_pages))
    /\ tp_pc' = "pool"
    /\ UNCHANGED <<tp_pages, tp_cfg, tp_cache, tp_work, tp_next, tp_refs, outsidePool>>

\* an idle worker thread takes the first work item of the queue; the
\* threads being interchangeable, it is the idle thread of the lowest number
IdleWorkers == {w \in 1..MAX_WORKERS : tp_work[w] = 0}

TpTake ==
    /\ tp_pc = "pool"
    /\ tp_queue # <<>>
    /\ IdleWorkers # {}
    /\ tp_work' = [tp_work EXCEPT ![Min(IdleWorkers)] = Head(tp_queue)]
    /\ tp_queue' = Tail(tp_queue)
    /\ UNCHANGED <<tp_pc, tp_pages, tp_cfg, tp_cache, tp_style, tp_oracle, tp_fut,
                   tp_next, tp_refs, outsidePool>>

\* a worker thread returns from _parse_page and sets the result of the future
TpFinish(w) ==
    /\ tp_pc = "pool"
    /\ tp_work[w] # 0
    /\ tp_fut' = [tp_fut EXCEPT ![tp_work[w]] =
                     [done |-> TRUE, taken |-> FALSE,
                      val  |-> parse_page(tp_pages[tp_work[w]], tp_style,
                                          tp_cfg.line_parser),
                      nth  |-> 1 + Cardinality({i \in DOMAIN tp_fut : tp_fut[i].done})]]
    /\ tp_work' = [tp_work EXCEPT ![w] = 0]
    /\ UNCHANGED <<tp_pc, tp_pages, tp_cfg, tp_cache, tp_style, tp_oracle, tp_queue,
                   tp_next, tp_refs, outsidePool>>

\* a loop over the futures in the order of their completion
TpCollect_as_completed ==
    /\ tp_pc = "pool"
    /\ \E i \in DOMAIN tp_fut :
         /\ tp_fut[i].done
         /\ ~tp_fut[i].taken
         /\ tp_refs' = tp_refs \o tp_fut[i].val
         /\ tp_fut' = [tp_fut EXCEPT ![i].taken = TRUE]
    /\ tp_next' = tp_next + 1
    /\ UNCHANGED <<tp_pc, tp_pages, tp_cfg, tp_cache, tp_style, tp_oracle, tp_queue,
                   tp_work, outsidePool>>

\* one turn of "for chunk in tp.map(...)": the main thread has waited for
\* the result of the next future, in the order of submission, and extends refs
TpCollect ==
    /\ tp_pc = "pool"
    /\ tp_next <= Len(tp_fut)
    /\ tp_fut[tp_next].done
    /\ tp_refs' = tp_refs \o tp_fut[tp_next].val
    /\ tp_fut' = [tp_fut EXCEPT ![tp_next].taken = TRUE]
    /\ tp_next' = tp_next + 1
    /\ UNCHANGED <<tp_pc, tp_pages, tp_cfg, tp_cache, tp_style, tp_oracle, tp_queue,
                   tp_work, outsidePool>>

\* the loop is over, the executor has shut down: return refs
TpReturn ==
    /\ tp_pc = "pool"
    /\ \A i \in DOMAIN tp_fut : tp_fut[i].taken
    /\ tp_pc' = "done"
    /\ UNCHANGED <<tp_pages, tp_cfg, tp_cache, tp_style, tp_oracle, tp_queue, tp_work,
                   tp_fut, tp_next, tp_refs, outsidePool>>

NextPool ==
    \/ TpDetect
    \/ TpTake
    \/ \E w \in 1..MAX_WORKERS : TpFinish(w)
    \/ TpCollect
    \/ TpReturn

SpecPool == InitPool /\ [][NextPool]_vars

\* ===================================================================
\* _gpt_detect called again and again: the cache of the oracle
\* (services/ref_extractor.py)
\* ===================================================================
GPT_TIMEOUT == 7
MaxCalls == 3

\* the samples the calls are made with
CacheSamples == {<<L_dot>>, <<L_fb>>}

\* how the request of a call ends, and after how many seconds: with a
\* response at once, or with the TimeoutError of wait_for
CacheReplies ==
    {[reply |-> Reply(<<"a", "p", "a">>), after |-> 0],
     [reply |-> Reply(<<"m", "l", "a">>), after |-> 0],
     [reply |-> ReplyExc, after |-> GPT_TIMEOUT]}

\* the seconds between the return of a call and the next call
Pauses == {1, CACHE_TTL - 8, CACHE_TTL}

InitCache ==
    /\ OldIdle
    /\ PoolIdle
    /\ SignalsIdle
    /\ gc_pc = "ready"
    /\ gc_has_key \in BOOLEAN
    /\ gc_now = 0
    /\ gc_cache = {}
    /\ gc_req = <<>>
    /\ gc_hist = <<>>

\* what a call that has returned leaves in gc_hist
Returned(sample, now, before, asked, reply, sty) ==
    [sample |-> sample, now |-> now, before |-> before, asked |-> asked,
     reply |-> reply, sty |-> sty, after |-> gc_cache']

\* _gpt_detect(sample), called when the clock shows now, up to its return
\* or its await
GcCallAt(sample, now) ==
    /\ gc_now' = now
    /\ IF ~gc_has_key
       THEN /\ gc_cache' = gc_cache
            /\ gc_hist' = Append(gc_hist, Returned(sample, now, gc_cache, FALSE,
                                                   ReplyExc, "unknown"))
            /\ UNCHANGED <<gc_pc, gc_req>>
       ELSE IF cache_fresh(gc_cache, sample_hash(sample), now) # {}
       THEN /\ gc_cache' = gc_cache
            /\ gc_hist' = Append(gc_hist,
                   Returned(sample, now, gc_cache, FALSE, ReplyExc,
                       (CHOOSE c \in cache_fresh(gc_cache, sample_hash(sample), now) :
                            TRUE).sty))
            /\ UNCHANGED <<gc_pc, gc_req>>
       ELSE /\ gc_pc' = "waiting"
            /\ gc_req' = [sample |-> sample, key |-> sample_hash(sample), now |-> now]
            /\ UNCHANGED <<gc_cache, gc_hist>>

\* the next call, pause seconds after the return of the call before it
GcCall(sample, pause) ==
    /\ gc_pc = "ready"
    /\ Len(gc_hist) < MaxCalls
    /\ GcCallAt(sample, gc_now + pause)
    /\ UNCHANGED <<gc_has_key, outsideCache>>

\* the request ends, with a response or an exception, and the call stores
\* the label under the time it read when it began
GcReply(r) ==
    /\ gc_pc = "waiting"
    /\ gc_now' = gc_now + r.after
    /\ gc_cache' = cache_put(gc_cache, gc_req.key, label_of(r.reply), gc_req.now)
    /\ gc_hist' = Append(gc_hist, Returned(gc_req.sample, gc_req.now, gc_cache, TRUE,
                                           r.reply, label_of(r.reply)))
    /\ gc_pc' = "ready"
    /\ gc_req' = <<>>
    /\ UNCHANGED <<gc_has_key, outsideCache>>

NextCache ==
    \/ \E sample \in CacheSamples, pause \in Pauses : GcCall(sample, pause)
    \/ \E r \in CacheReplies : GcReply(r)

SpecCache == InitCache /\ [][NextCache]_vars

\* ===================================================================
\* detect_style_and_type  (ref_style_detector.py)
\* ===================================================================
\* what the function looks for in the line s: the entries of signals that
\* it reads, and its searches outside signals
SignalNames ==
    {"year", "range", "vol_iss", "vol_kw", "in_kw", "ed_kw", "place_pub", "bracket_num",
     "paren_year",    \* \([12]\d{3}\) or [A-Z][A-Za-z\-]+[, ]+\d{4}\b is found
     "dotted_num",    \* ^\s*\d+\.\s is found
     "curly_quote",   \* the right double quotation mark is in s
     "straight_quote",\* the character " is in s
     "thesis_kw",     \* \b(thesis|diss\.?|dissertation)\b is found
     "proc_kw"}       \* \bproceedings|conf\.|konferenz|tagung\b is found

\* a line cannot begin with a bracketed and with a dotted number
Signals == {g \in [SignalNames -> BOOLEAN] : ~(g["bracket_num"] /\ g["dotted_num"])}

score_author_year(g) ==
    (IF g["paren_year"] THEN 2 ELSE 0) + (IF g["year"] THEN 1 ELSE 0)

score_numeric(g) == IF g["bracket_num"] \/ g["dotted_num"] THEN 2 ELSE 0

score_note(g) == IF g["ed_kw"] /\ g["place_pub"] /\ g["year"] THEN 2 ELSE 0

\* signals["place_pub"] and RQ in s or DQ in s: "and" binds tighter than "or"
score_mla(g) ==
    IF (g["place_pub"] /\ g["curly_quote"]) \/ g["straight_quote"] THEN 2 ELSE 0

StyleNames == <<"author-year", "numeric", "note-chicago", "mla-like">>

style_scores(g) == <<score_author_year(g), score_numeric(g), score_note(g), score_mla(g)>>

\* max(scores, key=scores.get): the first key of the greatest score; "other"
\* if that score is 0
style_family_of(scores) ==
    LET best == CHOOSE i \in DOMAIN scores :
                    /\ \A j \in DOMAIN scores : scores[j] <= scores[i]
                    /\ \A j \in 1..(i - 1) : scores[j] < scores[i]
    IN  IF scores[best] = 0 THEN "other" ELSE StyleNames[best]

\* the chain of tests with the journal test after the book test
entry_type_of_book_first(g) ==
    IF g["in_kw"] /\ g["ed_kw"] THEN "chapter"
    ELSE IF g["place_pub"] /\ ~g["in_kw"] THEN "book"
    ELSE IF g["vol_iss"] \/ (g["vol_kw"] /\ g["range"]) THEN "journal-article"
    ELSE IF g["thesis_kw"] THEN "thesis"
    ELSE IF g["proc_kw"] THEN "proceedings"
    ELSE "other"

\* the if / elif chain of entry_type
entry_type_of(g) ==
    IF g["in_kw"] /\ g["ed_kw"] THEN "chapter"
    ELSE IF g["vol_iss"] \/ (g["vol_kw"] /\ g["range"]) THEN "journal-article"
    ELSE IF g["place_pub"] /\ ~g["in_kw"] THEN "book"
    ELSE IF g["thesis_kw"] THEN "thesis"
    ELSE IF g["proc_kw"] THEN "proceedings"
    ELSE "other"

\* detect_style_and_type(raw), from "# Stil" on
detect_style_and_type(g) ==
    [scores       |-> style_scores(g),
     style_family |-> style_family_of(style_scores(g)),
     entry_type   |-> entry_type_of(g)]

\* the function is called on any line, or by parse_reference on clean(raw),
\* in which norm_quotes has replaced every " by a left quotation mark
InitSignals ==
    /\ OldIdle
    /\ PoolIdle
    /\ CacheIdle
    /\ sd_pc \in {"in", "in_cleaned"}
    /\ sd_sig \in Signals
    /\ sd_pc = "in_cleaned" => ~sd_sig["straight_quote"]
    /\ sd_out = <<>>

SdDetect ==
    /\ sd_pc \in {"in", "in_cleaned"}
    /\ sd_out' = detect_style_and_type(sd_sig)
    /\ sd_pc' = IF sd_pc = "in" THEN "done" ELSE "done_cleaned"
    /\ UNCHANGED <<sd_sig, outsideSignals>>

NextSignals == SdDetect

SpecSignals == InitSignals /\ [][NextSignals]_vars

\* ===================================================================
\* Properties of the cascade (checked under Spec)
\* ===================================================================
StageOrder == <<"toc", "kw", "fonts", "heur">>

Last(s) == s[Len(s)]

\* C1: every non-absent result (f, l) of detect_bibliography satisfies
\* 1 <= f <= l <= pageCount, whichever stage produced it.
\* The table-of-contents stage breaks it: see C1_TocOutOfRange.
C1_ResultInRange ==
    (pc = "done" /\ result # None) =>
        /\ 1 <= result[1]
        /\ result[1] <= result[2]
        /\ result[2] <= pageCount

\* C1, what the code does guarantee: the results of the keyword stage and of
\* the interval scorer lie in 1..pageCount
C1_LaterStagesInRange ==
    (pc = "done" /\ hitStage \in {"kw", "heur"}) =>
        /\ 1 <= result[1]
        /\ result[1] <= result[2]
        /\ result[2] <= pageCount

\* C1: a state in which the table-of-contents stage returned a page behind
\* the last page of the document
C1_TocOutOfRange ==
    /\ pc = "done"
    /\ hitStage = "toc"
    /\ result[2] > pageCount

\* C2: the stages are started in the order toc, kw, fonts, heur; a stage is
\* started only after every earlier stage missed; the value returned is the
\* output of the first stage that hit, and nothing runs after a hit: the
\* stage that hit is the last one started, and the font cache is written only
\* if the heading stage was started.
C2_StageOrder ==
    /\ trace = SubSeq(StageOrder, 1, Len(trace))
    /\ fontCache <=> (\E i \in DOMAIN trace : trace[i] = "fonts")
    /\ hitStage # "" =>
          /\ pc = "done"
          /\ Last(trace) = hitStage
          /\ result = obs.out
          /\ result # None
    /\ (pc \notin {"done", "fullscan"}) =>
          /\ hitStage = ""
          /\ result = None
          /\ pc = (StageOrder \o <<"done">>)[Len(trace) + 1]

\* C2: the keyword stage hit after the table of contents missed; the
\* heading stage, and its cache write, never ran
C2_Witness ==
    /\ pc = "done"
    /\ hitStage = "kw"
    /\ trace = <<"toc", "kw">>
    /\ ~fontCache
    /\ result = obs.out

\* the maximal runs of consecutive integers of a set H of page numbers
MaximalRuns(H) ==
    {r \in H \X H :
        /\ r[1] <= r[2]
        /\ \A q \in r[1]..r[2] : q \in H
        /\ (r[1] - 1) \notin H
        /\ (r[2] + 1) \notin H}

RunLen(r) == r[2] - r[1] + 1

\* C4: the keyword stage returns (first, last) of the longest maximal run of
\* consecutive hit pages, the earliest among runs of equal length, when that
\* run has at least kw_min_block pages; otherwise it misses and the cascade
\* goes on with the heading stage.  Hits [10,11,12,20,21] give (10,12).
C4_KeywordLongestRun ==
    /\ kw_stage(<<10, 11, 12, 20, 21>>, 2) = <<10, 12>>
    /\ obs.stage = "kw" =>
         LET runs == MaximalRuns(Range(obs.in))
         IN  IF \E r \in runs : RunLen(r) >= kw_min_block
             THEN /\ obs.out \in runs
                  /\ \A r \in runs :
                        /\ RunLen(r) <= RunLen(obs.out)
                        /\ RunLen(r) = RunLen(obs.out) => obs.out[1] <= r[1]
                  /\ pc = "done"
                  /\ hitStage = "kw"
                  /\ result = obs.out
             ELSE /\ obs.out = None
                  /\ pc = "fonts"
                  /\ hitStage = ""
                  /\ result = None

\* C4: two runs of the same greatest length; the earlier one is returned
C4_Witness ==
    /\ obs.stage = "kw"
    /\ obs.in = <<1, 3>>
    /\ kw_min_block = 1
    /\ result = <<1, 1>>

\* C5: when no stage finds a bibliography, detect_bibliography returns None
\* and raises nothing, in both implementations.
\* services/bib_orchestrator.py breaks it: see C5_OrchestratorRaises.
C5_AbsentNotRaised ==
    (pc = "done" /\ hitStage = "") => (result = None /\ raised = "")

\* C5: all four stages of services/bib_orchestrator.py ran, none found
\* anything, and a TypeError left the function
C5_OrchestratorRaises ==
    /\ pc = "done"
    /\ impl = "bib_orchestrator"
    /\ trace = StageOrder
    /\ hitStage = ""
    /\ raised = "TypeError"

\* C5: services/delb/find_bibliography.py returns None after the full scan
C5_FindReturnsAbsent ==
    /\ pc = "done"
    /\ impl = "find_bibliography"
    /\ trace = StageOrder
    /\ result = None
    /\ raised = ""

\* ===================================================================
\* Properties of the interval scorer (checked under SpecEval)
\* ===================================================================
\* the maximal runs of positions whose score reaches median * boost
QualRuns(sc, m2, boost) ==
    MaximalRuns({i \in DOMAIN sc : sc[i] * 200 >= m2 * boost})

RunSum(sc, r) == SumSeq(SubSeq(sc, r[1], r[2]))

\* run a is preferred to run b: higher mean, then longer, then earlier
Preferred(sc, a, b) ==
    LET ma == RunSum(sc, a) * RunLen(b)
        mb == RunSum(sc, b) * RunLen(a)
    IN  \/ ma > mb
        \/ ma = mb /\ RunLen(a) > RunLen(b)
        \/ ma = mb /\ RunLen(a) = RunLen(b) /\ a[1] < b[1]

\* C3: among the maximal runs of positions with score >= median * boost that
\* have length >= 2, _evaluate returns the one with the highest mean, ties
\* broken by greater length and then by earliest position; it returns None
\* only when no such run exists.
\* The code breaks it: see C3_ShortRunWins.
C3_BestRunReturned ==
    ev_pc = "done" =>
        LET long == {r \in QualRuns(ev_refined, ev_med, ev_opt.boost) : RunLen(r) >= 2}
        IN  IF long = {} THEN ev_out = None
            ELSE /\ ev_out \in long
                 /\ \A r \in long \ {ev_out} : Preferred(ev_refined, ev_out, r)

\* C3, what the code does: the preferred run among ALL maximal runs is
\* chosen, and it is returned only if its length is >= 2
C3_BestOfAllRuns ==
    ev_pc = "done" =>
        LET runs == QualRuns(ev_refined, ev_med, ev_opt.boost)
            top  == {a \in runs : \A b \in runs \ {a} : Preferred(ev_refined, a, b)}
        IN  IF runs = {} THEN ev_out = None
            ELSE /\ Cardinality(top) = 1
                 /\ \A a \in top : ev_out = (IF RunLen(a) >= 2 THEN a ELSE None)

\* C3: a run of one page has the highest mean; nothing is returned although
\* a qualifying run of two or more pages exists
C3_ShortRunWins ==
    /\ ev_pc = "done"
    /\ ev_out = None
    /\ \E r \in QualRuns(ev_refined, ev_med, ev_opt.boost) : RunLen(r) >= 2

\* C6: when the oracle request of one page fails, that page keeps its
\* heuristic score and every other asked page whose request answered
\* affirmatively is still set to 1.0.
\* The code breaks it: see C6_BatchLost.
C6_FailureIsolated ==
    (ev_pc \in {"select", "done"} /\ ev_opt.use_gpt) =>
        \A i \in DOMAIN ev_scores :
            /\ ev_answers[i] = "E" => ev_refined[i] = ev_scores[i]
            /\ ev_answers[i] = "B" => ev_refined[i] = ScoreDen

\* C6: one request failed, another answered affirmatively, and the page of
\* the affirmative answer kept a score below 1.0
C6_BatchLost ==
    /\ ev_pc = "select"
    /\ \E i, j \in DOMAIN ev_answers :
          /\ ev_answers[i] = "E"
          /\ ev_answers[j] = "B"
          /\ ev_refined[j] = ev_scores[j]
          /\ ev_refined[j] < ScoreDen

\* C6, what the code does: without a failing request every affirmative
\* answer sets the score to 1.0; with one, no score changes
C6_AllOrNothing ==
    (ev_pc \in {"select", "done"} /\ ev_opt.use_gpt) =>
        IF \E i \in DOMAIN ev_scores : ev_answers[i] = "E"
        THEN ev_refined = ev_scores
        ELSE \A i \in DOMAIN ev_scores :
                ev_refined[i] = (IF ev_answers[i] = "B" THEN ScoreDen ELSE ev_scores[i])

\* ===================================================================
\* Properties of dedupe_records (checked under SpecDedupe)
\* ===================================================================
\* C7: dedupe_records(dedupe_records(X)) = dedupe_records(X), in the exact
\* and in the fuzzy mode, for every threshold.
C7_DedupeIdempotent ==
    dd_pc = "twice" => dd_out2 = dd_out

\* C7: fuzzy mode, a record was removed and two were kept although one of the
\* kept records is a duplicate of the removed one and not of the other kept
\* one (the relation is not transitive), and the second pass ran
C7_Witness ==
    /\ dd_pc = "twice"
    /\ dd_mode = "fuzzy"
    /\ Len(dd_in) = 3
    /\ Len(dd_out) = 2
    /\ \E j \in DOMAIN dd_in :
          /\ is_dup(dd_out[1], dd_in[j], dd_thr)
          /\ is_dup(dd_in[j], dd_out[2], dd_thr)
          /\ ~is_dup(dd_out[1], dd_out[2], dd_thr)

\* the duplicate relation as the specification words it
Duplicate(a, b, threshold, mode) ==
    LET ka == keyf(a)
        kb == keyf(b)
    IN  IF mode = "exact" THEN ka = kb
        ELSE /\ (ka.fam = <<>> \/ kb.fam = <<>> \/ ka.fam = kb.fam)
             /\ (ka.y = 0 \/ kb.y = 0 \/ (ka.y - kb.y \in {-1, 0, 1}))
             /\ ratio_ge(token_set_ratio(ka.t, kb.t), threshold)

\* the records of s at the positions K, in order
RECURSIVE Pick(_, _, _)
Pick(s, K, i) ==
    IF i > Len(s) THEN <<>>
    ELSE (IF i \in K THEN <<s[i]>> ELSE <<>>) \o Pick(s, K, i + 1)

\* C8: the output is the input restricted to a set of kept positions, in
\* the input's order; position 1 is kept; every removed record is a
\* duplicate of a kept record that precedes it in the input.
C8_FirstSeenKept ==
    dd_pc \in {"once", "twice"} =>
        \E K \in SUBSET DOMAIN dd_in :
            /\ dd_out = Pick(dd_in, K, 1)
            /\ dd_in # <<>> => 1 \in K
            /\ \A j \in DOMAIN dd_in \ K :
                  \E i \in K : i < j /\ Duplicate(dd_in[i], dd_in[j], dd_thr, dd_mode)

\* C8: a record was removed whose fields differ from those of the kept
\* record it duplicates, and a later record was kept
C8_Witness ==
    /\ dd_pc = "once"
    /\ Len(dd_in) = 3
    /\ Len(dd_out) = 2
    /\ dd_out[1] = dd_in[1]
    /\ dd_out[2] = dd_in[3]
    /\ keyf(dd_in[2]) # keyf(dd_in[1])

C10_JournalLineFields ==
    (px_pc = "returned" /\ px_line = L_journal) =>
        /\ px_parsed.authors =
              <<[family |-> <<"S", "m", "i", "t", "h">>, given |-> <<"J", ".">>],
                [family |-> <<"D", "o", "e">>, given |-> <<"A", ".">>]>>
        /\ px_parsed.year = 2020
        /\ px_parsed.title = <<"A", " ", "S", "t", "u", "d", "y", " ", "o", "f", " ",
                               "T", "h", "i", "n", "g", "s">>
        /\ px_parsed.volume = <<"1", "2">>
        /\ px_parsed.issue = <<"3">>
        /\ px_parsed.pages = <<"4", "5", "EN", "6", "7">>

\* what the code returns for the journal line: the year is taken as an
\* ISBN, the rest of the line becomes the given name of the second author
C10_YearTakenAsIsbn ==
    /\ px_pc = "returned"
    /\ px_line = L_journal
    /\ px_parsed.exc = ""
    /\ px_parsed.isbn = <<"2", "0", "2", "0">>
    /\ px_parsed.year = NoNum
    /\ px_parsed.title = <<>>
    /\ px_parsed.volume = NoStr
    /\ px_parsed.issue = NoStr
    /\ px_parsed.pages = NoStr
    /\ Len(px_parsed.authors) = 2
    /\ px_parsed.authors[1] = [family |-> <<"S", "m", "i", "t", "h">>, given |-> <<"J", ".">>]
    /\ px_parsed.authors[2].family = <<"D", "o", "e">>
    /\ Len(px_parsed.authors[2].given) > 2

\* ----------------------------------------------------------------
\* C11: parse_reference takes DOI, ISBN and URL out of the line before
\* the other fields, and year, volume, issue and pages never come from
\* digits inside an identifier: on a line whose digits all lie in one
\* identifier, none of the four is returned
C11_NoFieldFromIdentifier ==
    (px_pc = "returned" /\ px_line \in IdLines) =>
        /\ px_parsed.year = NoNum
        /\ px_parsed.volume = NoStr
        /\ px_parsed.issue = NoStr
        /\ px_parsed.pages = NoStr

\* the DOI is cut at its first hyphen between digits, the first number of
\* the remainder is taken as ISBN, the second as the year
C11_YearFromDoi ==
    /\ px_pc = "returned"
    /\ px_line = NoDigitPrefix \o Id_doi_years
    /\ px_parsed.doi = SubSeq(Id_doi_years, 1, 9)
    /\ px_parsed.isbn = <<"2", "0", "1", "9">>
    /\ px_parsed.year = 2020

\* ----------------------------------------------------------------
\* C12: on a line with year-like tokens outside DOI, ISBN and URL,
\* parse_reference returns the last of them as the year
C12_LastYearReturned ==
    \A y \in YearLines :
        (px_pc = "returned" /\ px_line = y.line) => px_parsed.year = y.last

\* the only year-like token of the line is returned as isbn, no year is
\* returned
C12_SingleYearLost ==
    /\ px_pc = "returned"
    /\ px_line = L_one_year
    /\ px_parsed.isbn = <<"2", "0", "0", "5">>
    /\ px_parsed.year = NoNum

\* ----------------------------------------------------------------
\* C13: a title with an uppercase-letter ratio of at least 0.85 comes
\* back with its first word capitalized, its interior stopwords in
\* lowercase, its Roman numerals in uppercase and every other word
\* capitalized; a title below the ratio keeps its case
\* M{0,3}(CM|CD|D?C{0,3})(XC|XL|L?X{0,3})(IX|IV|V?I{0,3}): a Roman numeral
RomanNumeral ==
    <<Cls({"M"}, 0, 3),
      Grp(0, <<Lit(<<"C", "M">>), Lit(<<"C", "D">>), <<Cls({"D"}, 0, 1), Cls({"C"}, 0, 3)>> >>),
      Grp(0, <<Lit(<<"X", "C">>), Lit(<<"X", "L">>), <<Cls({"L"}, 0, 1), Cls({"X"}, 0, 3)>> >>),
      Grp(0, <<Lit(<<"I", "X">>), Lit(<<"I", "V">>), <<Cls({"V"}, 0, 1), Cls({"I"}, 0, 3)>> >>),
      Eos>>

IsRomanNumeral(w) == w # <<>> /\ re_match(RomanNumeral, upper(w)).ok

\* the word o stands for the k-th word w (lowercased) as the rule says; a
\* Roman numeral in first place may be capitalized or uppercase
CasedAsStated(k, w, o) ==
    IF IsRomanNumeral(w) THEN o = upper(w) \/ (k = 1 /\ o = capitalize(w))
    ELSE IF k > 1 /\ w \in STOPWORDS_TITLE THEN o = w
    ELSE o = capitalize(w)

C13_TitleCase ==
    tc_pc = "done" =>
        IF is_all_caps(tc_title)
        THEN LET ws == split(lower(tc_title))
                 os == split(tc_out)
             IN  /\ Len(os) = Len(ws)
                 /\ \A k \in DOMAIN ws : CasedAsStated(k, ws[k], os[k])
        ELSE tc_out = tc_title

\* the interior stopword "im" of an uppercase title comes back in
\* uppercase
C13_StopwordUppercased ==
    /\ tc_pc = "done"
    /\ tc_title = <<"W", "O", "R", "L", "D", " ", "I", "M", " ", "W", "O", "R", "L", "D">>
    /\ tc_out = <<"W", "o", "r", "l", "d", " ", "I", "M", " ", "W", "o", "r", "l", "d">>

\* ----------------------------------------------------------------
\* C14: when the term catalog is absent or holds no terms, the import of
\* the detector ends at once with a fatal error; no term test ever runs
\* on a built-in term set
CatalogWithoutTerms(csv) ==
    \/ ~csv.exists
    \/ \A i \in 2..Len(csv.rows) :
          \A j \in DOMAIN csv.rows[i] : strip(csv.rows[i][j], WsChars) = <<>>

TierOrder == <<"custom", "style", "fallback">>

\* what the tier returned for the logged line e
TierResult(tier, e) ==
    CASE tier = "custom"   -> e.custom
      [] tier = "style"    -> style_parse(px_style, e.raw)
      [] tier = "fallback" -> fallback_parse(e.raw)

\* the tiers there are for this call
TierAvailable(tier) ==
    CASE tier = "custom"   -> px_line_parser
      [] tier = "style"    -> px_style \in Range(PatternNames)
      [] tier = "fallback" -> TRUE

TiersInOrder(e) ==
    LET n == Len(e.tried)
        pos(k) == CHOOSE i \in DOMAIN TierOrder : TierOrder[i] = e.tried[k]
    IN  /\ n >= 1
        /\ \A k \in 1..n : TierAvailable(e.tried[k])
        /\ \A k \in 1..(n - 1) : pos(k) < pos(k + 1)
        \* no available tier is skipped
        /\ \A i \in 1..pos(n) : TierAvailable(TierOrder[i]) => TierOrder[i] \in Range(e.tried)
        \* every tier before the last one returned nothing
        /\ \A k \in 1..(n - 1) : TierResult(e.tried[k], e) = NoneRec
        \* the record is that of the last tier consulted
        /\ e.rec = TierResult(e.tried[n], e)
        /\ e.rec = NoneRec => (e.tried[n] = "fallback" /\ ~e.kept)
        /\ e.rec # NoneRec => e.tier = e.tried[n]

C15_TiersInOrder ==
    /\ \A k \in DOMAIN px_log : TiersInOrder(px_log[k])
    /\ px_pc = "done" =>
         /\ Len(px_log) = Len(merge_lines(px_txt))
         /\ \A k \in DOMAIN px_log : px_log[k].raw = merge_lines(px_txt)[k]

\* all three tiers returned nothing for the first line, which is left out;
\* the second line is parsed by the style template and kept
C15_Witness ==
    /\ px_pc = "done"
    /\ px_line_parser
    /\ Len(px_log) = 2
    /\ px_log[1].tried = TierOrder
    /\ px_log[1].rec = NoneRec
    /\ px_log[2].tried = <<"custom", "style">>
    /\ px_log[2].tier = "style"
    /\ px_log[2].kept
    /\ px_out = <<px_log[2].rec>>

\* ===================================================================
\* Properties of the interval scorer inside the cascade (checked under Spec)
\* ===================================================================
\* the 0-based page indices that the pass of the interval scorer that ended
\* in this state has pulled, in the order of the pull
PassPages ==
    IF obs.stage = "heur" THEN pull_pages(pageCount, HeadPct, TailPct)
    ELSE all_pages(pageCount)

PassScores == [i \in DOMAIN PassPages |-> score_page(obs.in[PassPages[i] + 1])]

\* page q (1-based) was pulled and its score reaches median * boost
PageQualifies(q) ==
    \E i \in DOMAIN PassPages :
        /\ PassPages[i] + 1 = q
        /\ PassScores[i] * 200 >= median2(PassScores) * BoostPct

\* C16: on the head/tail pass and on the full scan, every page of the
\* interval (first, last) that the interval scorer returns was scored in
\* that pass and has a score >= median * boost; the interval spans no page
\* that was not sampled or that scored below the threshold.
\* The head/tail pass breaks it: see C16_SpansUnsampled.
C16_IntervalPagesQualify ==
    (pc = "done" /\ hitStage = "heur") =>
        \A q \in result[1]..result[2] : PageQualifies(q)

\* C16, what the code does guarantee: the two ends of the interval were
\* scored and qualify, and after a full scan so does every page between them
C16_EndsQualify ==
    (pc = "done" /\ hitStage = "heur") =>
        /\ PageQualifies(result[1])
        /\ PageQualifies(result[2])
        /\ obs.stage = "fullscan" =>
              \A q \in result[1]..result[2] : PageQualifies(q)

\* C16: the head/tail pass returned an interval with a page inside it that
\* was never pulled: the run went from the last head page to the first tail
\* page, which are neighbours in the list of pulled pages only
C16_SpansUnsampled ==
    /\ pc = "done"
    /\ hitStage = "heur"
    /\ obs.stage = "heur"
    /\ \E q \in result[1]..result[2] :
          \A i \in DOMAIN PassPages : PassPages[i] + 1 # q

\* the result of the head/tail pass on the document that stage 3 read
SamplePass ==
    LET smp == pull_pages(pageCount, HeadPct, TailPct)
    IN  evaluate(smp, TextsOf(obs.in, smp), BoostPct, NoGpt).val

FullPass == evaluate(all_pages(pageCount), obs.in, BoostPct, NoGpt).val

\* C18: the interval scorer evaluates the head and tail pages first; the
\* full scan runs only after that pass gave no interval; an interval of the
\* head/tail pass is returned at once, without a full scan; the result is
\* absent only when the head/tail pass and the full scan both gave none.
C18_SampleThenFullScan ==
    /\ pc = "fullscan" =>
          /\ obs.stage = "heur"
          /\ obs.out = None
          /\ result = None
    /\ (obs.stage = "heur" /\ impl = "find_bibliography") =>
          /\ obs.out = SamplePass
          /\ IF SamplePass # None
             THEN pc = "done" /\ result = SamplePass /\ hitStage = "heur"
             ELSE pc = "fullscan"
    /\ obs.stage = "fullscan" =>
          /\ SamplePass = None
          /\ pc = "done"
          /\ raised = ""
          /\ result = FullPass
    /\ (pc = "done" /\ Last(trace) = "heur" /\ impl = "find_bibliography"
          /\ result = None) =>
          /\ obs.stage = "fullscan"
          /\ SamplePass = None
          /\ FullPass = None

\* C18: the head/tail pass found nothing (the first and the last page score
\* differently), the full scan then found an interval in between
C18_Witness ==
    /\ pc = "done"
    /\ obs.stage = "fullscan"
    /\ SamplePass = None
    /\ result # None
    /\ result = FullPass
    /\ 1 < result[1]
    /\ result[2] < pageCount

\* C20: for every document the table-of-contents locator returns a hit or
\* "not found" and raises nothing, pages without text or with white space
\* only included; a page found by the scan of the page texts lies in the
\* first ceil(pageCount / 3) pages; after "not found" the keyword stage runs.
\* A page of white space breaks it: see C20_BlankPageRaises.
C20_TocLocatorTotal ==
    obs.stage = "toc" =>
        /\ raised = ""
        /\ toc_pg = NoNum => pc = "kw"
        /\ (obs.in # None /\ obs.in.outline = <<>> /\ toc_pg # NoNum) =>
              /\ 1 <= toc_pg
              /\ toc_pg <= CeilDiv(pageCount, 3)
              /\ obs.in.texts[toc_pg].lines # <<>>

\* C20: the text of a page of the first third is white space only; the
\* division numbered / len(lines) of _looks_like_toc raised and the
\* exception left detect_bibliography before the keyword stage
C20_BlankPageRaises ==
    /\ pc = "done"
    /\ trace = <<"toc">>
    /\ raised = "ZeroDivisionError"
    /\ result = None
    /\ \E i \in DOMAIN obs.in.texts : obs.in.texts[i].ws

\* C20, what the code does guarantee: the locator raises only on a document
\* without usable outline that has a page of white space among the pages it
\* scans, and every claim of C20 holds when it does not raise
C20_TotalWithoutBlankPage ==
    obs.stage = "toc" =>
        /\ raised # "" =>
              /\ raised = "ZeroDivisionError"
              /\ obs.in.outline = <<>>
              /\ \E i \in 1..CeilDiv(pageCount, 3) : obs.in.texts[i].ws
        /\ (raised = "" /\ toc_pg = NoNum) => pc = "kw"
        /\ (raised = "" /\ obs.in # None /\ obs.in.outline = <<>> /\ toc_pg # NoNum) =>
              /\ 1 <= toc_pg
              /\ toc_pg <= CeilDiv(pageCount, 3)

\* what the table-of-contents scan of the stage that hit returned
TocScan == scan_pdf(obs.in, pageCount)

\* C21: for the same table-of-contents lines and the same page count both
\* implementations of detect_bibliography return the same bounds, the
\* single page (p, p) of the bibliography row's number p, also when that
\* row carries the largest number of the table of contents.
\* services/bib_orchestrator.py breaks it: see C21_OrchestratorToEof.
C21_SameSinglePage ==
    (pc = "done" /\ hitStage = "toc") =>
        LET p == bib_from_toc(TocScan.lines, TOC_KEYS(impl))
        IN  /\ result = <<p, p>>
            /\ toc_stage("find_bibliography", TocScan, pageCount)
                 = toc_stage("bib_orchestrator", TocScan, pageCount)

\* C21: the bibliography row, found by both implementations, carries the
\* largest number of the table of contents; services/bib_orchestrator.py
\* returned (p, pageCount), find_bibliography returns (p, p) on these lines
C21_OrchestratorToEof ==
    /\ pc = "done"
    /\ hitStage = "toc"
    /\ impl = "bib_orchestrator"
    /\ result[1] # result[2]
    /\ result[2] = pageCount
    /\ toc_stage("find_bibliography", TocScan, pageCount) = <<result[1], result[1]>>

\* C21, what the code does: find_bibliography always returns the single
\* page; bib_orchestrator returns (p, pageCount) exactly when no row of the
\* table of contents carries a larger number than p
C21_PolicyPerImplementation ==
    (pc = "done" /\ hitStage = "toc") =>
        LET p    == bib_from_toc(TocScan.lines, TOC_KEYS(impl))
            nums == {TocScan.lines[i].num : i \in DOMAIN TocScan.lines} \ {NoNum}
        IN  IF impl = "bib_orchestrator" /\ \A m \in nums : m <= p
            THEN result = <<p, pageCount>>
            ELSE result = <<p, p>>

\* ===================================================================
\* Properties of the heading stage (checked under SpecHeading)
\* ===================================================================
\* a span of page p counts as a heading candidate
IsCandidate(sp, p) ==
    /\ ok_string(sp.txt)
    /\ font_passes(sp.font, p, hd_cache.font_ranking)

\* how often the pair (font, text) is a candidate in the whole document
TimesSeen(font, txt) ==
    LET P == hd_cache.pages
    IN  Cardinality({ij \in {<<i, j>> : i \in DOMAIN P, j \in 1..1} :
                        /\ ij[2] \in DOMAIN P[ij[1]].spans
                        /\ P[ij[1]].spans[ij[2]].font = font
                        /\ P[ij[1]].spans[ij[2]].txt = txt
                        /\ IsCandidate(P[ij[1]].spans[ij[2]], P[ij[1]])})

\* the pages behind the table-of-contents page that hold an accepted
\* bibliography heading: a candidate whose (font, text) pair is seen >= 3
\* times and whose text matches the header pattern
BibHeadingPages ==
    IF hd_chaps = <<>> \/ ~hd_chaps.ok THEN {}
    ELSE LET P == hd_cache.pages
         IN  {P[i].n : i \in {k \in DOMAIN P :
                 /\ P[k].n > hd_barrier
                 /\ \E j \in DOMAIN P[k].spans :
                       /\ IsCandidate(P[k].spans[j], P[k])
                       /\ P[k].spans[j].txt.bib
                       /\ TimesSeen(P[k].spans[j].font, P[k].spans[j].txt) >= 3}}

C17_AcceptedAlwaysRaises ==
    hd_pc = "done" =>
        hd_out.kind = (IF BibHeadingPages # {} THEN "raise" ELSE "fall")

\* C17, in the cascade: analyse_file never accepts the file that _font_write
\* has just written, so no result ever comes from the heading stage
C17_CascadeNeverAccepts ==
    hitStage # "fonts"

\* ===================================================================
\* Properties of the oracle refinement (checked under SpecOracleLive)
\* ===================================================================
InFlight(i) == i \in DOMAIN or_task /\ or_task[i] = "inflight"

InFlightCount == Cardinality({i \in DOMAIN or_task : or_task[i] = "inflight"})

\* the request of page i was sent at some time
Submitted(i) == or_task[i] \in {"inflight", "answered", "raised"}

\* C19, first part: at most 5 oracle requests are in flight
C19_AtMostFiveInFlight ==
    InFlightCount <= 5

\* C19, last part: a page whose score is >= 0.75 is not submitted unless
\* gpt_only is set
C19_OnlyUncertainSubmitted ==
    \A i \in DOMAIN or_task :
        (Submitted(i) /\ ~or_forced) => 100 * or_scores[i] < 75 * ScoreDen

\* C19: at every moment of the oracle refinement at most 5 requests are in
\* flight; every request is bounded by a timeout, that is, a request in
\* flight ends although the oracle never answers; pages whose score is
\* >= 0.75 are not submitted unless refinement is forced.
\* The code breaks the second part: see C19_RequestWithoutEnd.
C19_BoundedRequests ==
    /\ [](C19_AtMostFiveInFlight /\ C19_OnlyUncertainSubmitted)
    /\ \A i \in 1..MaxOraclePages : InFlight(i) ~> ~InFlight(i)

\* C19: every other task has returned, one request is in flight; the
\* program has no step left that ends it
C19_RequestWithoutEnd ==
    /\ or_pc = "gather"
    /\ InFlightCount = 1
    /\ \A i \in DOMAIN or_task : or_task[i] \in {"inflight", "answered", "slept"}
    /\ ~ENABLED OrProgram

\* C19: five requests in flight and a sixth task blocked at the semaphore
C19_CapReached ==
    /\ InFlightCount = 5
    /\ or_sem = 0
    /\ or_waiters # <<>>

\* ===================================================================
\* Properties of the line merger (checked under SpecParse)
\* ===================================================================
\* the lines of the page as the loop sees them: ln.rstrip()
Stripped(lines) == [i \in DOMAIN lines |-> rstrip(lines[i], WsChars)]

\* line i of the page is appended to the buffer that holds line i - 1
Appended(ls, i) ==
    /\ i > 1
    /\ ls[i] # <<>>
    /\ ls[i - 1] # <<>>
    /\ Last(ls[i - 1]) \notin {".", ";", ":", ","}
    /\ ls[i][1] \in LowerChars

\* the lines that open a logical line, and the last line of the logical
\* line that line s opens
Openers(ls) == {i \in DOMAIN ls : ls[i] # <<>> /\ ~Appended(ls, i)}
GroupEnd(ls, s) ==
    Max({e \in s..Len(ls) : \A j \in (s + 1)..e : Appended(ls, j)})
NthOpener(ls, k) ==
    CHOOSE s \in Openers(ls) : Cardinality({t \in Openers(ls) : t <= s}) = k

\* the logical lines of the page, first those already parsed
LogicalLines ==
    [k \in DOMAIN px_log |-> px_log[k].raw] \o px_todo

\* C22: a line is appended to the buffer exactly when the buffer is not
\* empty, does not end in one of . ; : , and the line begins with a
\* lower-case letter; otherwise the buffer is flushed as one logical line;
\* the logical lines come in source order and every non-blank line of the
\* page is part of exactly one of them.
C22_MergeRule ==
    (px_pc \in {"lines", "done", "returned"} /\ px_txt # <<>>) =>
        LET ls == Stripped(px_txt)
        IN  /\ Len(LogicalLines) = Cardinality(Openers(ls))
            /\ \A k \in DOMAIN LogicalLines :
                 LET s == NthOpener(ls, k)
                 IN  LogicalLines[k] = join_sp(SubSeq(ls, s, GroupEnd(ls, s)))
            /\ \A i \in DOMAIN ls : ls[i] # <<>> =>
                 Cardinality({s \in Openers(ls) : s <= i /\ i <= GroupEnd(ls, s)}) = 1

\* a page of two lines of which the second was appended to the first, and
\* the logical line was parsed
C22_Witness ==
    /\ px_pc = "done"
    /\ px_txt = <<L_fb, L_cont>>
    /\ Len(px_log) = 1
    /\ px_log[1].raw = L_fb \o <<" ">> \o L_cont

\* a page of two lines that stay two logical lines although the second
\* begins with a lower-case letter: the first ends in a full stop
C22_WitnessFlush ==
    /\ px_pc = "done"
    /\ px_txt = <<L_apa, L_cont>>
    /\ Len(px_log) = 2
    /\ px_log[2].raw = L_cont

\* ===================================================================
\* Properties of extract_references on a document (checked under SpecPool)
\* ===================================================================
\* the first 12 lines of the document that are not blank
NonBlankLines(lines) == {i \in DOMAIN lines : strip(lines[i], WsChars) # <<>>}
InSample(lines, i) ==
    i \in NonBlankLines(lines) /\ Cardinality({j \in NonBlankLines(lines) : j < i}) < 12

\* the templates, by their place in the order apa, harvard, num,
\* author-title, that match one of them
MatchingTemplates(lines) ==
    {n \in 1..4 : \E i \in DOMAIN lines :
        InSample(lines, i) /\ re_match(Patterns(PatternNames[n]), lines[i]).ok}

\* the first of them, or "unknown"
FirstOf(matching) ==
    IF matching = {} THEN "unknown"
    ELSE PatternNames[CHOOSE n \in matching : \A m \in matching : n <= m]

\* the records of page i in the order of its logical lines, under style
PageRecords(i, style) == parse_page(tp_pages[i], style, tp_cfg.line_parser)

\* the records of pages 1..k, page by page
RECURSIVE RecordsUpTo(_, _)
RecordsUpTo(k, style) ==
    IF k = 0 THEN <<>> ELSE RecordsUpTo(k - 1, style) \o PageRecords(k, style)

\* C23: the records extract_references returns are in source order, page by
\* page in the order of the page range and line by line within a page, in
\* whatever order the worker threads complete the pages.
C23_SourceOrder ==
    /\ tp_pc = "pool" => tp_refs = RecordsUpTo(tp_next - 1, tp_style)
    /\ tp_pc = "done" => tp_refs = RecordsUpTo(Len(tp_pages), tp_style)

\* the second page was completed before the first, both hold records, and
\* the call has returned
C23_Witness ==
    /\ tp_pc = "done"
    /\ Len(tp_pages) = 2
    /\ tp_pages[1] # tp_pages[2]
    /\ tp_fut[2].nth = 1
    /\ tp_fut[1].val # <<>>
    /\ tp_fut[2].val # <<>>
    /\ tp_fut[1].val # tp_fut[2].val
    /\ tp_refs = tp_fut[1].val \o tp_fut[2].val

\* the record of a line that only the universal fallback template, after
\* the line_parser of the caller, has seen
FallbackOnly(raw) ==
    IF tp_cfg.line_parser /\ line_parser(raw) # NoneRec
    THEN line_parser(raw)
    ELSE fallback_parse(raw)

RECURSIVE FallbackRecords(_)
FallbackRecords(raws) ==
    IF raws = <<>> THEN <<>>
    ELSE (IF accept(FallbackOnly(Head(raws))) THEN <<FallbackOnly(Head(raws))>> ELSE <<>>)
         \o FallbackRecords(Tail(raws))

RECURSIVE FallbackUpTo(_)
FallbackUpTo(k) ==
    IF k = 0 THEN <<>>
    ELSE FallbackUpTo(k - 1) \o FallbackRecords(merge_lines(tp_pages[k]))

\* the template name the reply of the oracle spells, if any
SpelledBy(reply) ==
    {n \in Range(PatternNames) :
        ~reply.exc /\ lower(strip(reply.content, WsChars)) = Spelling(n)}

\* what step 2 of extract_references does, given the style of the templates
StyleRule(template_style) ==
    /\ template_style # "unknown" => tp_style = template_style /\ ~tp_oracle.called
    /\ tp_oracle.called <=> (template_style = "unknown" /\ tp_cfg.use_gpt)
    /\ tp_oracle.asked => (tp_oracle.called /\ tp_cfg.has_key)
    /\ ~tp_oracle.called => tp_style = template_style
    /\ tp_oracle.asked =>
         IF SpelledBy(tp_oracle.reply) = {} THEN tp_style = "unknown"
         ELSE tp_style \in SpelledBy(tp_oracle.reply)
    /\ (tp_oracle.called /\ ~tp_oracle.asked) =>
         tp_style \in {"unknown"} \cup {c.sty : c \in tp_cache}

\* C24: the style of the document is the first template, in the order apa,
\* harvard, num, author-title, that matches one of the first 12 non-blank
\* lines; the oracle is asked only when no template matched, use_gpt is set
\* and the oracle has a key; its answer is taken only if it is the name of a
\* template; and when the style stays "unknown" every line the line_parser
\* has not handled is parsed by the universal fallback template only.
C24_DocumentStyle ==
    tp_pc # "start" =>
        /\ StyleRule(FirstOf(MatchingTemplates(all_lines(tp_pages))))
        /\ (tp_pc = "done" /\ tp_style = "unknown") =>
             tp_refs = FallbackUpTo(Len(tp_pages))

\* the template of the document sits on its 14th non-blank line: no
\* template is found, the oracle is asked and answers with a word that is
\* no template name, the style stays "unknown" and the one record comes
\* from the fallback template
C24_Witness ==
    /\ tp_pc = "done"
    /\ tp_pages = <<P_dots, P_apa>>
    /\ tp_oracle.asked
    /\ tp_oracle.reply = Reply(<<"m", "l", "a">>)
    /\ tp_style = "unknown"
    /\ Len(tp_refs) = 1
    /\ tp_refs[1] = fallback_parse(L_fb \o <<" ">> \o L_cont)

\* the numbered line comes first in the document and the apa line later:
\* the style is apa, the earlier template of the two
C24_WitnessOrder ==
    /\ tp_pc = "done"
    /\ tp_pages = <<P_num, P_apa>>
    /\ tp_style = "apa"

\* the numbered line is the 12th non-blank line of the document
C24_WitnessTwelfth ==
    /\ tp_pc = "done"
    /\ tp_pages = <<P_dots, P_num>>
    /\ tp_style = "num"
    /\ ~tp_oracle.called

\* ===================================================================
\* Properties of the oracle cache (checked under SpecCache)
\* ===================================================================
\* the entries of the same content hash that were stored less than 12
\* hours before the call h began
StoredBefore(h) ==
    {c \in h.before : c.key = sample_hash(h.sample) /\ h.now - c.t < 12 * 60 * 60}

\* the label a request that ended with reply gives
Outcome(reply) ==
    IF SpelledBy(reply) = {} THEN "unknown" ELSE CHOOSE n \in SpelledBy(reply) : TRUE

\* the call h stored its label under its own time and touched no other entry
StoredNow(h) ==
    /\ [key |-> sample_hash(h.sample), sty |-> h.sty, t |-> h.now] \in h.after
    /\ Cardinality({c \in h.after : c.key = sample_hash(h.sample)}) = 1
    /\ {c \in h.after : c.key # sample_hash(h.sample)}
         = {c \in h.before : c.key # sample_hash(h.sample)}

C25_WithoutKey ==
    ~gc_has_key =>
        /\ gc_cache = {}
        /\ \A k \in DOMAIN gc_hist : ~gc_hist[k].asked /\ gc_hist[k].sty = "unknown"

\* ===================================================================
\* Properties of detect_style_and_type (checked under SpecSignals)
\* ===================================================================
Detected == sd_pc \in {"done", "done_cleaned"}

\* the style returned has the highest score, and it is "other" exactly when
\* all four scores are zero
HighestScore ==
    /\ sd_out.style_family = "other" <=> \A i \in 1..4 : sd_out.scores[i] = 0
    /\ sd_out.style_family # "other" =>
         \E i \in 1..4 :
             /\ StyleNames[i] = sd_out.style_family
             /\ \A j \in 1..4 : sd_out.scores[j] <= sd_out.scores[i]

NumericOnlyOnLeadingNumber ==
    sd_out.scores[2] > 0 => (sd_sig["bracket_num"] \/ sd_sig["dotted_num"])

NoteOnlyOnCooccurrence ==
    sd_out.scores[3] > 0 => (sd_sig["ed_kw"] /\ sd_sig["place_pub"] /\ sd_sig["year"])

QuotationOnlyOnCooccurrence ==
    sd_out.scores[4] > 0 =>
        (sd_sig["place_pub"] /\ (sd_sig["curly_quote"] \/ sd_sig["straight_quote"]))

\* C26: for every combination of the signals the style returned is the
\* hypothesis of the highest score, "other" exactly when all four scores
\* are zero; the quotation-style hypothesis scores only when place:publisher
\* and a quotation mark co-occur, the note-style hypothesis only when editor
\* keyword, place:publisher and year co-occur, the numeric one only on a
\* leading bracketed or dotted number.
\* A straight quotation mark alone breaks it: see C26_QuoteAlone.
C26_StyleRule ==
    Detected =>
        /\ HighestScore
        /\ NumericOnlyOnLeadingNumber
        /\ NoteOnlyOnCooccurrence
        /\ QuotationOnlyOnCooccurrence

\* a line with a straight quotation mark and no place:publisher, no year
\* and no number is returned as mla-like
C26_QuoteAlone ==
    /\ sd_pc = "done"
    /\ sd_sig["straight_quote"]
    /\ ~sd_sig["place_pub"]
    /\ sd_out.scores = <<0, 0, 0, 2>>
    /\ sd_out.style_family = "mla-like"

\* what holds: everything but the co-occurrence for the straight quotation
\* mark, and all of it when the line comes from parse_reference
C26_StraightQuoteSuffices ==
    Detected =>
        /\ HighestScore
        /\ NumericOnlyOnLeadingNumber
        /\ NoteOnlyOnCooccurrence
        /\ sd_out.scores[4] > 0 <=>
             ((sd_sig["place_pub"] /\ sd_sig["curly_quote"]) \/ sd_sig["straight_quote"])
        /\ sd_pc = "done_cleaned" => QuotationOnlyOnCooccurrence

ChapterRule == sd_sig["in_kw"] /\ sd_sig["ed_kw"]
JournalRule == sd_sig["vol_iss"] \/ (sd_sig["vol_kw"] /\ sd_sig["range"])
BookRule    == sd_sig["place_pub"] /\ ~sd_sig["in_kw"]

\* C27: for every combination of the signals the entry type follows the
\* priority rule chapter, journal-article, book, thesis, proceedings, other:
\* exactly one type is returned and a higher rule always wins over a lower.
C27_TypeRule ==
    Detected =>
        /\ sd_out.entry_type \in
             {"chapter", "journal-article", "book", "thesis", "proceedings", "other"}
        /\ sd_out.entry_type = "chapter" <=> ChapterRule
        /\ sd_out.entry_type = "journal-article" <=> (~ChapterRule /\ JournalRule)
        /\ sd_out.entry_type = "book" <=> (~ChapterRule /\ ~JournalRule /\ BookRule)
        /\ sd_out.entry_type = "thesis" <=>
             (~ChapterRule /\ ~JournalRule /\ ~BookRule /\ sd_sig["thesis_kw"])
        /\ sd_out.entry_type = "proceedings" <=>
             (~ChapterRule /\ ~JournalRule /\ ~BookRule /\ ~sd_sig["thesis_kw"]
              /\ sd_sig["proc_kw"])
        /\ sd_out.entry_type = "other" <=>
             (~ChapterRule /\ ~JournalRule /\ ~BookRule /\ ~sd_sig["thesis_kw"]
              /\ ~sd_sig["proc_kw"])

\* the rules of journal-article, book, thesis and proceedings all apply,
\* and journal-article is returned
C27_Witness ==
    /\ sd_pc = "done"
    /\ ~ChapterRule
    /\ sd_sig["vol_kw"] /\ sd_sig["range"] /\ ~sd_sig["vol_iss"]
    /\ BookRule
    /\ sd_sig["thesis_kw"]
    /\ sd_sig["proc_kw"]
    /\ sd_out.entry_type = "journal-article"

\* ===================================================================
\* Properties of the pages of parse_reference (checked under SpecParse)
\* ===================================================================
\* s1 of parse_reference: the cleaned line without DOI, ISBN and URL
S1Of(raw) ==
    strip_and_capture(RE_URL,
        strip_and_capture(RE_ISBN, strip_and_capture(RE_DOI, clean(raw)).rest).rest).rest

\* the pages the container step has captured
ContainerPages == container_of(S1Of(px_line)).pages

\* the volume(issue) step has matched and pages comes neither from the
\* container step nor from a pp. or S. keyword
PagesFromVolIss ==
    /\ StrTruthy(px_parsed.volume)
    /\ StrTruthy(px_parsed.pages)
    /\ ~StrTruthy(ContainerPages)
    /\ ~re_search(RE_PAGES, S1Of(px_line)).ok

\* C28: when the container step has captured pages, the volume(issue) step
\* leaves pages unchanged; it assigns pages only when pages is still unset,
\* and only from a page range that a colon or a comma introduces after the
\* NN(MM) match.
\* Both parts break: see C28_Overwritten.
C28_PagesFrame ==
    (px_pc = "returned" /\ px_parsed.exc = "") =>
        /\ StrTruthy(ContainerPages) => px_parsed.pages = ContainerPages
        /\ PagesFromVolIss =>
             /\ re_search(RE_PG, S1Of(px_line)).ok
             /\ re_search(RE_PG, S1Of(px_line)).start
                  >= re_search(RE_VOL_ISS, S1Of(px_line)).end - 1

\* the container step had captured 5-9 and the volume(issue) step has
\* replaced it by the 7 after the colon
C28_Overwritten ==
    /\ px_pc = "returned"
    /\ px_line = L_in_vi
    /\ px_parsed.exc = ""
    /\ ContainerPages = <<"5", "EN", "9">>
    /\ px_parsed.volume = <<"1", "2">>
    /\ px_parsed.pages = <<"7">>

\* the page after a comma is not taken, the page after a colon that stands
\* before the NN(MM) match is
C28_CommaAndPosition ==
    px_pc = "returned" =>
        /\ px_line = L_vi_comma =>
             px_parsed.volume = <<"1", "2">> /\ ~StrTruthy(px_parsed.pages)
        /\ px_line = L_colon_vi =>
             px_parsed.volume = <<"1", "2">> /\ px_parsed.pages = <<"5">>

\* what holds: without a NN(MM) match the pages of the container step stay
C28_KeptWithoutVolIss ==
    (px_pc = "returned" /\ px_parsed.exc = "" /\ ~StrTruthy(px_parsed.volume)) =>
        (StrTruthy(ContainerPages) => px_parsed.pages = ContainerPages)

\* ===================================================================
\* Properties of the pipeline extract_references, normalize_records
\* (checked under SpecParse)
\* ===================================================================
\* the merged source line of record k of refs
KeptLines == SelectSeq(px_log, LAMBDA l : l.kept)
SourceLine(k) == KeptLines[k].raw

YearRule(k) ==
    px_norm.out[k].year =
        IF px_norm.out[k].parsed.year # NoNum THEN px_norm.out[k].parsed.year
        ELSE px_out[k].year

\* C29: the text the normalizer hands to the deep parser for a record is
\* the merged source line the record was extracted from, not a line put
\* together from the fields; each NormalizedRef keeps a back-reference to
\* its input record; its year is the year of the deep parser when found,
\* else the integer year of the input record.
\* The first part breaks: see C29_Reassembled.
C29_SourceLineReparsed ==
    px_pc = "normalized" =>
        \A k \in DOMAIN px_norm.out :
            /\ px_norm.out[k].raw_line = SourceLine(k)
            /\ px_norm.out[k].raw = px_out[k]
            /\ YearRule(k)

\* the record of the line "Ab 1999 T" is parsed again from a line made of
\* its fields, with an em dash and quotation marks the source does not hold
C29_Reassembled ==
    /\ px_pc = "normalized"
    /\ px_norm.exc = ""
    /\ Len(px_norm.out) = 1
    /\ SourceLine(1) = L_fb
    /\ px_norm.out[1].raw_line =
         <<"A", "b", " ", "EM", " ", "LQ", "T", "RQ", " ", "EM", " ", "1", "9", "9", "9">>

\* what holds: every record is parsed again from the line made of its
\* fields, and the back-reference and the year are as the claim says
C29_FieldsReparsed ==
    px_pc = "normalized" =>
        /\ px_norm.exc = "" => Len(px_norm.out) = Len(px_out)
        /\ \A k \in DOMAIN px_norm.out :
             /\ px_norm.out[k].raw_line # SourceLine(k)
             /\ px_norm.out[k].raw = px_out[k]
             /\ YearRule(k)

\* ===================================================================
\* The interval scorer on a document without text (checked under Spec)
\* ===================================================================
\* stages 0, 1 and 2 missed and stage 3 of find_bibliography.py scored a
\* document of which every page has the score 0
BlankDocumentScored ==
    /\ pc = "done"
    /\ impl = "find_bibliography"
    /\ trace = StageOrder
    /\ obs.stage \in {"heur", "fullscan"}
    /\ \A i \in DOMAIN obs.in : score_page(obs.in[i]) = 0

\* C30: for a document in which every page has no text (every page score
\* is 0) and in which the table-of-contents, keyword and heading stages
\* miss, detect_bibliography returns None, not a page range.
\* The scorer breaks it: see C30_BlankDocumentRange.
C30_BlankDocumentAbsent ==
    BlankDocumentScored => (result = None /\ raised = "")

\* three pages without text: the median of the scores is 0, 0 >= 0 * boost
\* lets every pulled page qualify, and the range (1, 3) is returned
C30_BlankDocumentRange ==
    /\ BlankDocumentScored
    /\ pageCount = 3
    /\ \A i \in DOMAIN obs.in : obs.in[i].blank
    /\ raised = ""
    /\ hitStage = "heur"
    /\ result = <<1, 3>>

\* what the code does: the fast path returns the whole document
C30_BlankDocumentWhole ==
    BlankDocumentScored =>
        /\ obs.stage = "heur"
        /\ raised = ""
        /\ hitStage = "heur"
        /\ result = <<1, pageCount>>

====
